---- MODULE Spec2Model ----
(***************************************************************************)
(* Container orchestrator of the test harness                              *)
(* (src/test-harness/container_orchestrator.py) together with the port     *)
(* pre-flight check it uses (src/test-harness/utils/ports.py).             *)
(*                                                                         *)
(* One orchestrator process is a sequential program; every blocking        *)
(* subprocess call is one step.  The container engine and the host's port  *)
(* space are the environment.  SIGINT/SIGTERM reach the process while it   *)
(* is blocked in one of these calls.                                       *)
(*                                                                         *)
(* Spec      the orchestrator.                                             *)
(* RegSpec   the port registry (src/test-harness/config/port_manager.py):  *)
(*           one process with two threads; every statement of a locked     *)
(*           section is one step; the process may end, or be killed while  *)
(*           it writes the file, and be started again with another base.   *)
(* RaceSpec  two registry processes on the same backing file.              *)
(* FindSpec  find_sequential_ports as a program, one bind per step.        *)
(* DetSpec   detect_runtime, one `--version` subprocess per step, followed  *)
(*           by the path start_containers and cleanup take.                *)
(* ChkSpec   check_sequential_port_block as a program, one probe per step.  *)
(* ConcSpec  threads of one process in find_sequential_ports at the same   *)
(*           time.                                                         *)
(***************************************************************************)
EXTENDS Integers, Sequences, FiniteSets, TLC

\* ------------------------------------------------------------------ bounds
\* number of SIGINT/SIGTERM deliveries considered per process run
MaxSignals == 1
\* number of health polls that fit into the wait timeout
MaxPolls == 2
\* number of orchestrator processes launched one after the other
MaxRuns == 2
\* number of threads that call find_sequential_ports at the same time
MaxFinders == 2

\* --------------------------------------------------------- program constants
BasePort == 8090
MaxPortNumber == 65535
max_attempts == 1000

Services == <<"app", "postgres", "mongo">>
RequiredContainers == <<"test-postgres", "test-mongo">>
Containers == {"test-postgres", "test-mongo"}
RuntimePriority == <<"podman", "docker", "nerdctl", "buildah">>
Actions == {"start", "stop", "test", "runtime"}

\* the preferred block 8090..8092
Block == BasePort .. (BasePort + Len(Services) - 1)

\* descriptions the process attribution can give for a busy port
ProcInfos == {"unknown process", "process python (PID 1)"}

\* ------------------------------------------------------------ pure helpers
RECURSIVE Join(_)
Join(ss) == IF ss = <<>> THEN <<>>
            ELSE IF Len(ss) = 1 THEN ss[1]
            ELSE ss[1] \o <<",">> \o Join(Tail(ss))

\* `tok in str(e)` on the token level
HasToken(msg, tok) == \E i \in 1..Len(msg) : msg[i] = tok

\* the message contains "<p> already in use"
NamesPort(msg, p) ==
    \E i \in 1..(Len(msg) - 1) :
        msg[i] = ToString(p) /\ msg[i + 1] = "already in use"

\* _is_port_available on a port number (0..65535): a bind succeeds iff nobody
\* holds the port.  The callers of this operator probe port numbers only; what
\* the function does on any other integer is modelled by bind below.
is_port_available(port, busy) == port \notin busy /\ port \in 0..MaxPortNumber

\* one entry of busy_port_strs
BusyPortStr(pi) ==
    IF pi.process_info # "None"
    THEN <<ToString(pi.port), "already in use", "(", pi.process_info, ")">>
    ELSE <<ToString(pi.port), "already in use">>

\* variant: the scan stops at the first busy port, as the finder's scan does
RECURSIVE BusyPortsFirstOnly(_, _, _, _)
BusyPortsFirstOnly(base, count, busy, info) ==
    IF count < 1 THEN <<>>
    ELSE IF is_port_available(base, busy)
         THEN BusyPortsFirstOnly(base + 1, count - 1, busy, info)
         ELSE << [port |-> base, available |-> FALSE,
                  process_info |-> info[base]] >>

\* busy_ports of the range base..base+count-1, ascending; info gives the
\* process attribution of each busy port
RECURSIVE BusyPorts(_, _, _, _)
BusyPorts(base, count, busy, info) ==
    IF count < 1 THEN <<>>
    ELSE (IF is_port_available(base, busy) THEN <<>>
          ELSE << [port |-> base, available |-> FALSE,
                   process_info |-> info[base]] >>)
         \o BusyPorts(base + 1, count - 1, busy, info)

\* variant: the range form of the message also for a single port
BusyMessagePlural(base, count, busy_ports) ==
    LET end_port == base + count - 1
        strs == [i \in 1..Len(busy_ports) |-> BusyPortStr(busy_ports[i])]
    IN  <<"Ports", ToString(base), "-", ToString(end_port), ":">>
           \o Join(strs)

\* lines 130-153: error_message of a range with busy ports; for one port the
\* text after "<base> " of its description follows "Port <base>:"
BusyMessage(base, count, busy_ports) ==
    LET end_port == base + count - 1
        strs == [i \in 1..Len(busy_ports) |-> BusyPortStr(busy_ports[i])]
    IN  IF count = 1
        THEN <<"Port", ToString(base), ":">> \o Tail(strs[1])
        ELSE <<"Ports", ToString(base), "-", ToString(end_port), ":">>
                \o Join(strs)

\* check_sequential_port_block; messages are token sequences
check_sequential_port_block(base, count, busy, info) ==
    LET end_port == base + count - 1
        busy_ports == BusyPorts(base, count, busy, info)
    IN  IF count < 1
        THEN [available |-> FALSE, requested_range |-> <<base, end_port>>,
              busy_ports |-> <<>>,
              error_message |-> <<"Count must be at least 1">>]
        ELSE IF end_port > MaxPortNumber
        THEN [available |-> FALSE, requested_range |-> <<base, end_port>>,
              busy_ports |-> <<>>,
              error_message |-> <<"Port range", ToString(base), "-",
                                  ToString(end_port),
                                  "exceeds maximum port number",
                                  ToString(MaxPortNumber)>>]
        ELSE IF busy_ports = <<>>
        THEN [available |-> TRUE, requested_range |-> <<base, end_port>>,
              busy_ports |-> <<>>, error_message |-> <<>>]
        ELSE [available |-> FALSE, requested_range |-> <<base, end_port>>,
              busy_ports |-> busy_ports,
              error_message |-> BusyMessage(base, count, busy_ports)]

\* find_sequential_ports: <<>> stands for the RuntimeError
RECURSIVE FindFrom(_, _, _, _, _)
FindFrom(current, count, busy, attempt, base) ==
    IF attempt > max_attempts THEN <<>>
    ELSE IF \A i \in 0..(count - 1) : is_port_available(current + i, busy)
         THEN [i \in 1..count |-> current + i - 1]
         ELSE IF (current + 1) + count - 1 > MaxPortNumber THEN <<>>
              ELSE FindFrom(current + 1, count, busy, attempt + 1, base)

find_sequential_ports(base, count, busy) == FindFrom(base, count, busy, 1, base)

\* the mapping service -> port built by the enumerate loop of _allocate_ports
PortMapping(allocated) ==
    [s \in {Services[i] : i \in 1..Len(Services)} |->
        allocated[CHOOSE i \in 1..Len(Services) : Services[i] = s]]

EmptyPorts == [s \in {} |-> 0]


\* ------------------------------------------------------------------- state
VARIABLES
    \* environment: the container engine and the host
    installed,      \* engines whose `--version` command exits 0
    envRunning,     \* names listed by `<engine> ps`
    envHealthy,     \* running containers whose readiness probe passes
    envPod,         \* the pod test-env exists
    envInPod,       \* containers attached to the pod test-env
    pubPorts,       \* host ports held by the pod / the compose services
    extBusy,        \* host ports held by unrelated processes
    \* OrchestrationSession (ContainerOrchestrator.__init__)
    runtime,        \* self.runtime: "none" or the engine name
    containers,     \* self.containers
    ports,          \* self.ports
    \* control of the running process
    action,         \* sys.argv[1]
    pc,             \* the next step
    idx,            \* loop index of the stop/rm loops
    polls,          \* iterations of the wait loop so far
    exiting,        \* SystemExit is propagating through the finally block
    startRes,       \* return value of start_containers ("none" before)
    success,        \* local `success` of run_full_test_cycle
    exitCode,       \* process exit status (-1 while running)
    runs,           \* processes launched so far
    sigs,           \* signals delivered to the current process
    \* history of the current process
    sigSeen,        \* a signal was delivered
    sigAfterStart,  \* ... after the session had started a pod or container
    cleanupCalls,   \* number of cleanup() invocations
    cleanupDone,    \* a cleanup() call returned
    cleanupRaised,  \* an exception escaped cleanup()
    cleanupAborted, \* a signal ended a cleanup() call before its return
    sessStarted,    \* containers this session brought up
    sessPod,        \* this session created the pod
    sessUp,         \* this session invoked compose up
    startCmds,      \* engine commands issued by the current start_containers
    cleanupCmds,    \* engine commands issued by the current cleanup
    preHealthy,     \* required containers were running and healthy at the call
    preBusy,        \* busy ports of the block seen by the pre-flight check
    portsPre,       \* self.ports at the call of start_containers
    allocErr,       \* message of the error raised by _allocate_ports
    fallback,       \* find_sequential_ports was called
    pollPassed,     \* a poll of wait_for_containers saw every check pass
    timedOut,       \* wait_for_containers returned False
    testsRun        \* the external test runner was invoked

envVars == <<installed, envRunning, envHealthy, envPod, envInPod, pubPorts,
             extBusy>>
sessVars == <<runtime, containers, ports>>
ctlVars == <<action, pc, idx, polls, exiting, startRes, success, exitCode,
             runs, sigs>>
histVars == <<sigSeen, sigAfterStart, cleanupCalls, cleanupDone,
              cleanupRaised, cleanupAborted, sessStarted, sessPod, sessUp, startCmds,
              cleanupCmds, preHealthy, preBusy, portsPre, allocErr, fallback,
              pollPassed, timedOut, testsRun>>
\* PortManager (src/test-harness/config/port_manager.py): one registry
\* instance per process, several threads per process, one backing file
VARIABLES
    port_file,      \* content of ./config/port_assignments.json
    alive,          \* the process has constructed its PortManager
    base_port,      \* self.base_port
    current_port,   \* self.current_port
    assigned_ports, \* self.assigned_ports
    lock,           \* holder of self.lock (0: free)
    tpc,            \* position of each thread
    call,           \* the call each thread is executing
    assigned_port,  \* local `assigned_port` of assign_port
    ret,            \* return value of the thread's last call
    env_vars,       \* the dict the last export_env_vars returned
    \* history of the registry
    clock,          \* constructions and mutating calls so far: the time
    loaded,         \* file content and cursor seen by the last _load_assignments
    issued,         \* <<service, port>> loaded or handed out since the
                    \* construction or the last reset
    lin,            \* registry state of the calls in lock-acquisition order
    linRet,         \* the result each call has in that order
    saved           \* what each process wrote in its last _save_assignments

regVars == <<port_file, alive, base_port, current_port, assigned_ports, lock,
             tpc, call, assigned_port, ret, env_vars>>
regHist == <<clock, loaded, issued, lin, linRet, saved>>

\* find_sequential_ports (src/test-harness/utils/ports.py) as a program
VARIABLES
    f_base,         \* argument base
    f_count,        \* argument count
    f_busy,         \* ports some process holds during the call
    f_pc,           \* position in the function
    f_current,      \* local current_port
    f_attempt,      \* iterations of the attempt loop so far
    f_i,            \* index of the inner loop
    f_ports,        \* local ports
    f_probed,       \* ports probed by the call, in order
    f_result        \* outcome of the call

findVars == <<f_base, f_count, f_busy, f_pc, f_current, f_attempt, f_i,
              f_ports, f_probed, f_result>>

\* several threads of one process in find_sequential_ports at the same time
\* (src/test-harness/test_ports.py, test_concurrent_port_allocation)
VARIABLES
    c_base,         \* argument base, the same in every thread
    c_count,        \* argument count, the same in every thread
    c_pc,           \* position of each thread in the function
    c_current,      \* local current_port of each thread
    c_attempt,      \* iterations of the attempt loop of each thread
    c_i,            \* index of the inner loop of each thread
    c_ports,        \* local ports of each thread
    c_held,         \* port the thread's probe socket is bound to, or NoSocket
    c_result        \* outcome of each thread's call

concVars == <<c_base, c_count, c_pc, c_current, c_attempt, c_i, c_ports,
              c_held, c_result>>

\* detect_runtime, one subprocess call per step, and the choice between the
\* native path and the compose path that start_containers and cleanup make
VARIABLES
    d_bin,          \* what `<command> --version` does on this host
    d_pc,           \* position in detect_runtime / start_containers / cleanup
    d_k,            \* index of the loop over runtimes
    d_probed,       \* commands run with --version so far, in order
    d_compose,      \* compose_command of each ContainerRuntime object
    d_runtime,      \* self.runtime: "none" or the engine name
    d_start,        \* how start_containers brought the environment up
    d_cleanup       \* how cleanup took it down

detVars == <<d_bin, d_pc, d_k, d_probed, d_compose, d_runtime, d_start,
             d_cleanup>>

\* check_sequential_port_block (src/test-harness/utils/ports.py) as a program
VARIABLES
    k_base,         \* argument base
    k_count,        \* argument count
    k_busy,         \* ports some process holds during the call
    k_pc,           \* position in the function
    k_i,            \* index of the loop over the range
    k_probed,       \* ports probed by the call, in order
    k_busy_ports,   \* local busy_ports
    k_tools,        \* what the tools did in the latest process attribution
    k_result        \* the PortBlockCheckResult returned

chkVars == <<k_base, k_count, k_busy, k_pc, k_i, k_probed, k_busy_ports, k_tools,
             k_result>>

orchVars == <<envVars, sessVars, ctlVars, histVars>>
vars == <<orchVars, regVars, regHist, findVars, concVars, detVars,
          chkVars>>

\* ------------------------------------------------- registry: constants, values
DefaultBasePort == 4000

\* processes sharing the backing file, and the threads of one process
Procs == {1, 2}
Threads == {1, 2}

\* service names and purposes the callers pass
RegServices == {"web-api", "web_api"}
Purposes == {"", "api"}

\* base ports a PortManager is constructed with (BASE_PORT or the argument)
BasePorts == {DefaultBasePort, DefaultBasePort + 2}

NoAssignments == [s \in {} |-> [port |-> 0, purpose |-> "", assigned_at |-> 0]]

\* the backing file: absent, not parseable as JSON, or the object written by
\* _save_assignments
MissingFile == [state |-> "missing", base_port |-> 0, next_port |-> 0,
                assignments |-> NoAssignments]
CorruptFile == [state |-> "corrupt", base_port |-> 0, next_port |-> 0,
                assignments |-> NoAssignments]

NoCall == [op |-> "none", service_name |-> "", purpose |-> ""]

\* return values: nothing yet, an int, None, a bool
NoRet == [kind |-> "none", val |-> 0]
RetInt(n) == [kind |-> "int", val |-> n]
RetNone == [kind |-> "None", val |-> 0]
RetBool(b) == [kind |-> "bool", val |-> IF b THEN 1 ELSE 0]

\* service -> port of an assignments mapping (get_service_ports)
get_service_ports(m) == [s \in DOMAIN m |-> m[s].port]

PortsOf(m) == {m[s].port : s \in DOMAIN m}

\* an empty dict of environment variables
NoEnv == [n \in {} |-> ""]

\* no PortManager has been constructed
RegIdle ==
    /\ env_vars = NoEnv
    /\ port_file = MissingFile
    /\ alive = [p \in Procs |-> FALSE]
    /\ base_port = [p \in Procs |-> DefaultBasePort]
    /\ current_port = [p \in Procs |-> DefaultBasePort]
    /\ assigned_ports = [p \in Procs |-> NoAssignments]
    /\ lock = [p \in Procs |-> 0]
    /\ tpc = [p \in Procs |-> [t \in Threads |-> "idle"]]
    /\ call = [p \in Procs |-> [t \in Threads |-> NoCall]]
    /\ assigned_port = [p \in Procs |-> [t \in Threads |-> 0]]
    /\ ret = [p \in Procs |-> [t \in Threads |-> NoRet]]
    /\ clock = 0
    /\ loaded = [p \in Procs |-> [file |-> MissingFile, cursor |-> 0]]
    /\ issued = [p \in Procs |-> {}]
    /\ lin = [p \in Procs |-> [next |-> 0, ports |-> <<>>]]
    /\ linRet = [p \in Procs |-> [t \in Threads |-> NoRet]]
    /\ saved = [p \in Procs |-> MissingFile]

\* find_sequential_ports has not been called
FindIdle ==
    /\ f_base = BasePort /\ f_count = 1 /\ f_busy = {}
    /\ f_pc = "idle" /\ f_current = 0 /\ f_attempt = 0 /\ f_i = 0
    /\ f_ports = <<>> /\ f_probed = <<>>
    /\ f_result = [kind |-> "none", ports |-> <<>>]

\* the threads that search at the same time
ConcThreads == 1 .. MaxFinders
\* no socket of the thread is bound
NoSocket == -1

\* no thread has called find_sequential_ports
ConcIdle ==
    /\ c_base = BasePort /\ c_count = 1
    /\ c_pc = [t \in ConcThreads |-> "idle"]
    /\ c_current = [t \in ConcThreads |-> 0]
    /\ c_attempt = [t \in ConcThreads |-> 0]
    /\ c_i = [t \in ConcThreads |-> 0]
    /\ c_ports = [t \in ConcThreads |-> <<>>]
    /\ c_held = [t \in ConcThreads |-> NoSocket]
    /\ c_result = [t \in ConcThreads |-> [kind |-> "none", ports |-> <<>>]]

\* no PortBlockCheckResult yet
NoCheck == [available |-> FALSE, requested_range |-> <<0, 0>>,
            busy_ports |-> <<>>, error_message |-> <<>>]

\* no process attribution yet
NoTools == [platform |-> "none", first |-> "none", second |-> "none",
            third |-> "none"]

\* check_sequential_port_block has not been called
ChkIdle ==
    /\ k_tools = NoTools
    /\ k_base = BasePort /\ k_count = 1 /\ k_busy = {}
    /\ k_pc = "idle" /\ k_i = 0 /\ k_probed = <<>> /\ k_busy_ports = <<>>
    /\ k_result = NoCheck

\* the compose helper binaries probed by _check_runtime_available
ComposeHelpers == {"podman-compose", "docker-compose"}
\* what subprocess.run([command, "--version"], timeout=...) can do: exit 0,
\* exit with another status, TimeoutExpired, FileNotFoundError
VersionOutcomes == {"zero", "nonzero", "timeout", "missing"}
\* compose_command the ContainerRuntime objects are created with
DefaultCompose ==
    [e \in {"podman", "docker", "nerdctl", "buildah"} |->
        CASE e = "podman" -> "podman-compose"
          [] e = "docker" -> "docker-compose"
          [] e = "nerdctl" -> "nerdctl compose"
          [] OTHER -> "buildah-compose"]
\* nothing was brought up or taken down
NoPath == [path |-> "none", cmd |-> "none"]

\* detect_runtime has not been called
DetIdle ==
    /\ d_bin = [c \in {"podman", "docker", "nerdctl", "buildah"}
                      \cup ComposeHelpers |-> "missing"]
    /\ d_pc = "idle" /\ d_k = 1 /\ d_probed = <<>>
    /\ d_compose = DefaultCompose /\ d_runtime = "none"
    /\ d_start = NoPath /\ d_cleanup = NoPath

\* engine installations considered
InstalledChoices == {{}, {"podman"}, {"docker"}, {"podman", "docker"},
                     {"nerdctl", "buildah"}}

CleanupPcs == {"cl_begin", "cl_stop", "cl_rm", "cl_pod_rm", "cl_down", "cl_ret"}
HealthPcs == {"ce_pg", "ce_mongo", "w_pg", "w_mongo"}

\* ports a bind would find in use
Busy == extBusy \cup pubPorts

\* the session has created a pod or started a container
SessionCreated == sessPod \/ sessStarted # {}

\* state of a fresh process: ContainerOrchestrator.__init__ and main's locals
FreshProcess(a) ==
    /\ runtime = "none" /\ containers = <<>> /\ ports = EmptyPorts
    /\ action = a /\ pc = "detect" /\ idx = 1 /\ polls = 0
    /\ exiting = FALSE /\ startRes = "none" /\ success = FALSE
    /\ exitCode = -1 /\ sigs = 0
    /\ sigSeen = FALSE /\ sigAfterStart = FALSE
    /\ cleanupCalls = 0 /\ cleanupDone = FALSE /\ cleanupRaised = FALSE
    /\ cleanupAborted = FALSE
    /\ sessStarted = {} /\ sessPod = FALSE /\ sessUp = FALSE
    /\ startCmds = {} /\ cleanupCmds = {}
    /\ preHealthy = FALSE /\ preBusy = {} /\ portsPre = EmptyPorts
    /\ allocErr = <<>> /\ fallback = FALSE
    /\ pollPassed = FALSE /\ timedOut = FALSE /\ testsRun = FALSE

\* the same values for the next state
FreshProcessNext(a) ==
    /\ runtime' = "none" /\ containers' = <<>> /\ ports' = EmptyPorts
    /\ action' = a /\ pc' = "detect" /\ idx' = 1 /\ polls' = 0
    /\ exiting' = FALSE /\ startRes' = "none" /\ success' = FALSE
    /\ exitCode' = -1 /\ sigs' = 0
    /\ sigSeen' = FALSE /\ sigAfterStart' = FALSE
    /\ cleanupCalls' = 0 /\ cleanupDone' = FALSE /\ cleanupRaised' = FALSE
    /\ cleanupAborted' = FALSE
    /\ sessStarted' = {} /\ sessPod' = FALSE /\ sessUp' = FALSE
    /\ startCmds' = {} /\ cleanupCmds' = {}
    /\ preHealthy' = FALSE /\ preBusy' = {} /\ portsPre' = EmptyPorts
    /\ allocErr' = <<>> /\ fallback' = FALSE
    /\ pollPassed' = FALSE /\ timedOut' = FALSE /\ testsRun' = FALSE

Init ==
    /\ installed \in InstalledChoices
    /\ extBusy \in SUBSET Block
    \* containers left by somebody else: none, or both (healthy or not),
    \* started by hand outside the pod and without the block's ports
    /\ envRunning \in {{}, Containers}
    /\ envHealthy \in {{}, envRunning}
    /\ envPod = FALSE /\ envInPod = {} /\ pubPorts = {}
    /\ runs = 1
    /\ \E a \in Actions : FreshProcess(a)
    /\ RegIdle /\ FindIdle /\ ConcIdle /\ DetIdle /\ ChkIdle


\* ------------------------------------------------- effects of engine commands
\* `<engine> stop c`: the container stops running
StopEffect(c) ==
    /\ envRunning' = envRunning \ {c}
    /\ envHealthy' = envHealthy \ {c}

\* `<engine> rm c`: a stopped container is removed (a running one is refused)
RmEffect(c) ==
    envInPod' = IF c \in envRunning THEN envInPod ELSE envInPod \ {c}

\* `<engine> pod rm test-env` (no --force): refused while a member runs
PodRmEffect ==
    IF envPod /\ envInPod \cap envRunning = {}
    THEN envPod' = FALSE /\ envInPod' = {} /\ pubPorts' = {}
    ELSE UNCHANGED <<envPod, envInPod, pubPorts>>

\* exit of the process with the given status
Exit(code) == pc' = "exit" /\ exitCode' = code

\* start_containers returns r
StartReturns(r) == pc' = "start_ret" /\ startRes' = r

\* variant: cleanup() catching only the errors of the subprocess calls
cleanup_catches_oserror(exc) == exc \in {"OSError"}

\* `except Exception` of cleanup(): the classes it catches
cleanup_catches(exc) == exc \in {"AttributeError", "OSError", "Exception"}

\* --------------------------------------------------------------- detection
\* detect_runtime: the first installed engine in priority order
FirstAvailable ==
    IF \E i \in 1..Len(RuntimePriority) : RuntimePriority[i] \in installed
    THEN RuntimePriority[CHOOSE i \in 1..Len(RuntimePriority) :
            /\ RuntimePriority[i] \in installed
            /\ \A j \in 1..(i - 1) : RuntimePriority[j] \notin installed]
    ELSE "none"

\* main: the first call of every action is detect_runtime (for "test" it is
\* the first statement of the try block of run_full_test_cycle)
detect_runtime ==
    /\ pc = "detect"
    /\ IF FirstAvailable # "none"
       THEN /\ runtime' = FirstAvailable
            /\ IF action = "runtime" THEN Exit(0)
               ELSE /\ pc' = IF action = "stop" THEN "cl_begin" ELSE "alloc"
                    /\ UNCHANGED exitCode
       ELSE \* RuntimeError: caught by the cycle and by "runtime" only
            /\ UNCHANGED runtime
            /\ IF action = "test" THEN pc' = "cl_begin" /\ UNCHANGED exitCode
               ELSE Exit(1)
    /\ UNCHANGED <<envVars, containers, ports, action, idx, polls, exiting,
                   startRes, success, runs, sigs, histVars>>

\* --------------------------------------------------------- port allocation
\* start_containers up to the return of _allocate_ports
allocate_ports ==
    /\ pc = "alloc"
    /\ startCmds' = {}
    /\ preHealthy' = (Containers \subseteq envRunning /\ Containers \subseteq envHealthy)
    /\ portsPre' = ports
    /\ preBusy' = Busy \cap Block
    /\ \E info \in [Busy \cap Block -> ProcInfos] :
         LET r == check_sequential_port_block(BasePort, Len(Services), Busy, info)
             e == r.error_message
             alt == find_sequential_ports(BasePort, Len(Services), Busy)
             next == IF runtime = "podman" THEN "ps" ELSE "compose_up"
         IN  IF r.available
             THEN /\ ports' = PortMapping([i \in 1..Len(Services) |-> BasePort + i - 1])
                  /\ pc' = next
                  /\ UNCHANGED <<startRes, allocErr, fallback>>
             ELSE IF HasToken(e, "already in use")
             THEN /\ allocErr' = <<"Unable to allocate sequential ports", ":">> \o e
                  /\ StartReturns("False")
                  /\ UNCHANGED <<ports, fallback>>
             ELSE /\ fallback' = TRUE
                  /\ IF alt # <<>>
                     THEN /\ ports' = PortMapping(alt)
                          /\ pc' = next
                          /\ UNCHANGED <<startRes, allocErr>>
                     ELSE /\ allocErr' = <<"Unable to allocate sequential ports", ":",
                                           "Unable to find sequential available ports">>
                          /\ StartReturns("False")
                          /\ UNCHANGED ports
    /\ UNCHANGED <<envVars, runtime, containers, action, idx, polls, exiting,
                   success, exitCode, runs, sigs, sigSeen, sigAfterStart,
                   cleanupCalls, cleanupDone, cleanupRaised, cleanupAborted,
                   sessStarted, sessPod, sessUp, cleanupCmds, pollPassed,
                   timedOut, testsRun>>

\* ------------------------------------------------------- native pod path
\* _check_containers_exist: the `ps` command and the membership test
check_containers_exist ==
    /\ pc = "ps"
    /\ startCmds' = startCmds \cup {<<"ps">>}
    /\ \E rc0 \in BOOLEAN :
         IF rc0 /\ \A i \in 1..Len(RequiredContainers) :
                       RequiredContainers[i] \in envRunning
         THEN pc' = "ce_pg" /\ UNCHANGED idx
         ELSE pc' = "ex_stop" /\ idx' = 1
    /\ UNCHANGED <<envVars, sessVars, action, polls, exiting, startRes,
                   success, exitCode, runs, sigs, sigSeen, sigAfterStart,
                   cleanupCalls, cleanupDone, cleanupRaised, cleanupAborted,
                   sessStarted, sessPod, sessUp, cleanupCmds, preHealthy,
                   preBusy, portsPre, allocErr, fallback, pollPassed, timedOut,
                   testsRun>>

\* where control goes when a health check called at pc p returns r
AfterPostgresHealth(p, r) ==
    IF p = "ce_pg" THEN (IF r THEN "ce_mongo" ELSE "ex_stop")
    ELSE (IF r THEN "w_mongo" ELSE "w_sleep")

\* _check_postgres_health, from _check_containers_exist or wait_for_containers
check_postgres_health ==
    /\ pc \in {"ce_pg", "w_pg"}
    /\ pc' = AfterPostgresHealth(pc, "test-postgres" \in envHealthy)
    /\ idx' = 1
    /\ UNCHANGED <<envVars, sessVars, action, polls, exiting, startRes,
                   success, exitCode, runs, sigs, histVars>>

\* the poll of wait_for_containers passed: back in main or the cycle
WaitReturnsTrue ==
    IF action = "start" THEN Exit(0) ELSE pc' = "tests" /\ UNCHANGED exitCode

\* the result r of _check_mongo_health called at pc p
AfterMongoHealth(p, r) ==
    IF p = "ce_mongo"
    THEN /\ IF r THEN StartReturns("True")
            ELSE pc' = "ex_stop" /\ UNCHANGED startRes
         /\ UNCHANGED <<exitCode, pollPassed>>
    ELSE /\ IF r THEN pollPassed' = TRUE /\ WaitReturnsTrue
            ELSE pc' = "w_sleep" /\ UNCHANGED <<exitCode, pollPassed>>
         /\ UNCHANGED startRes

\* _check_mongo_health
check_mongo_health ==
    /\ pc \in {"ce_mongo", "w_mongo"}
    /\ AfterMongoHealth(pc, "test-mongo" \in envHealthy)
    /\ idx' = 1
    /\ UNCHANGED <<envVars, sessVars, action, polls, exiting, success, runs,
                   sigs, sigSeen, sigAfterStart, cleanupCalls, cleanupDone,
                   cleanupRaised, cleanupAborted, sessStarted, sessPod, sessUp,
                   startCmds, cleanupCmds, preHealthy, preBusy, portsPre,
                   allocErr, fallback, timedOut, testsRun>>

\* _cleanup_existing_containers: stop of the idx-th name
cleanup_existing_stop ==
    /\ pc = "ex_stop"
    /\ StopEffect(RequiredContainers[idx])
    /\ startCmds' = startCmds \cup {<<"stop", RequiredContainers[idx]>>}
    /\ pc' = "ex_rm"
    /\ UNCHANGED <<installed, envPod, envInPod, pubPorts, extBusy, sessVars,
                   action, idx, polls, exiting, startRes, success, exitCode,
                   runs, sigs, sigSeen, sigAfterStart, cleanupCalls,
                   cleanupDone, cleanupRaised, cleanupAborted, sessStarted,
                   sessPod, sessUp, cleanupCmds, preHealthy, preBusy, portsPre,
                   allocErr, fallback, pollPassed, timedOut, testsRun>>

\* _cleanup_existing_containers: rm of the idx-th name
cleanup_existing_rm ==
    /\ pc = "ex_rm"
    /\ RmEffect(RequiredContainers[idx])
    /\ startCmds' = startCmds \cup {<<"rm", RequiredContainers[idx]>>}
    /\ IF idx < Len(RequiredContainers)
       THEN pc' = "ex_stop" /\ idx' = idx + 1
       ELSE pc' = "ex_pod_rm" /\ idx' = 1
    /\ UNCHANGED <<installed, envRunning, envHealthy, envPod, pubPorts,
                   extBusy, sessVars, action, polls, exiting, startRes,
                   success, exitCode, runs, sigs, sigSeen, sigAfterStart,
                   cleanupCalls, cleanupDone, cleanupRaised, cleanupAborted,
                   sessStarted, sessPod, sessUp, cleanupCmds, preHealthy,
                   preBusy, portsPre, allocErr, fallback, pollPassed, timedOut,
                   testsRun>>

\* _cleanup_existing_containers: removal of the pod
cleanup_existing_pod_rm ==
    /\ pc = "ex_pod_rm"
    /\ PodRmEffect
    /\ startCmds' = startCmds \cup {<<"pod", "rm">>}
    /\ pc' = "pod_create"
    /\ UNCHANGED <<installed, envRunning, envHealthy, extBusy, sessVars,
                   action, idx, polls, exiting, startRes, success, exitCode,
                   runs, sigs, sigSeen, sigAfterStart, cleanupCalls,
                   cleanupDone, cleanupRaised, cleanupAborted, sessStarted,
                   sessPod, sessUp, cleanupCmds, preHealthy, preBusy, portsPre,
                   allocErr, fallback, pollPassed, timedOut, testsRun>>

\* _start_podman_containers: `podman pod create`
pod_create ==
    /\ pc = "pod_create"
    /\ startCmds' = startCmds \cup {<<"pod", "create">>}
    /\ IF envPod
       THEN \* non-zero exit with "already exists": startup goes on
            /\ pc' = "run_pg"
            /\ UNCHANGED <<envPod, sessPod, startRes>>
       ELSE \E rc0 \in BOOLEAN :
              IF rc0 THEN /\ envPod' = TRUE /\ sessPod' = TRUE
                          /\ pc' = "run_pg" /\ UNCHANGED startRes
              ELSE StartReturns("False") /\ UNCHANGED <<envPod, sessPod>>
    /\ UNCHANGED <<installed, envRunning, envHealthy, envInPod, pubPorts,
                   extBusy, sessVars, action, idx, polls, exiting, success,
                   exitCode, runs, sigs, sigSeen, sigAfterStart, cleanupCalls,
                   cleanupDone, cleanupRaised, cleanupAborted, sessStarted,
                   sessUp, cleanupCmds, preHealthy, preBusy, portsPre,
                   allocErr, fallback, pollPassed, timedOut, testsRun>>

\* what a successful `podman run -d --name c --pod test-env` does to the
\* engine: the container runs in the pod, whose published ports are bound
RunEffect(c) ==
    /\ envRunning' = envRunning \cup {c}
    /\ envInPod' = envInPod \cup {c}
    /\ pubPorts' = {ports["postgres"], ports["mongo"]}
    /\ sessStarted' = sessStarted \cup {c}

\* _start_podman_containers: run of container c, the test of its exit status
\* and self.containers.append(c)
RunContainer(c) ==
    /\ startCmds' = startCmds \cup {<<"run", c>>}
    /\ \E rc0 \in BOOLEAN :
         IF rc0 THEN /\ RunEffect(c)
                     /\ containers' = Append(containers, c)
                     /\ IF c = "test-postgres"
                        THEN pc' = "run_mongo" /\ UNCHANGED startRes
                        ELSE StartReturns("True")
         ELSE /\ StartReturns("False")
              /\ UNCHANGED <<envRunning, envInPod, pubPorts, sessStarted,
                             containers>>
    /\ UNCHANGED <<installed, envHealthy, envPod, extBusy, runtime, ports,
                   action, idx, polls, exiting, success, exitCode, runs, sigs,
                   sigSeen, sigAfterStart, cleanupCalls, cleanupDone,
                   cleanupRaised, cleanupAborted, sessPod, sessUp, cleanupCmds,
                   preHealthy, preBusy, portsPre, allocErr, fallback,
                   pollPassed, timedOut, testsRun>>

run_postgres == pc = "run_pg" /\ RunContainer("test-postgres")

run_mongo == pc = "run_mongo" /\ RunContainer("test-mongo")

\* ------------------------------------------------------------- compose path
\* _start_compose_containers: `<compose> -f <file> up --build -d`; a failed
\* run may leave part of the services up
compose_up ==
    /\ pc = "compose_up"
    /\ startCmds' = startCmds \cup {<<"compose", "up", "--build">>}
    /\ sessUp' = TRUE
    /\ \E rc0 \in BOOLEAN :
         IF rc0 THEN /\ envRunning' = Containers
                     /\ sessStarted' = sessStarted \cup (Containers \ envRunning)
                     /\ pubPorts' = {ports["postgres"], ports["mongo"]}
                     /\ StartReturns("True")
         ELSE /\ \E part \in {{}, {"test-postgres"}} :
                    /\ envRunning' = envRunning \cup part
                    /\ sessStarted' = sessStarted \cup (part \ envRunning)
              /\ UNCHANGED pubPorts
              /\ StartReturns("False")
    /\ UNCHANGED <<installed, envHealthy, envPod, envInPod, extBusy, sessVars,
                   action, idx, polls, exiting, success, exitCode, runs, sigs,
                   sigSeen, sigAfterStart, cleanupCalls, cleanupDone,
                   cleanupRaised, cleanupAborted, sessPod, cleanupCmds,
                   preHealthy, preBusy, portsPre, allocErr, fallback,
                   pollPassed, timedOut, testsRun>>

\* ------------------------------------------------ after start_containers
\* variant: the failed start leaves the cycle before the try block is entered
start_returned_noclean ==
    /\ pc = "start_ret"
    /\ IF startRes = "True"
       THEN pc' = "w_pg" /\ polls' = 1 /\ UNCHANGED exitCode
       ELSE UNCHANGED polls /\ Exit(1)
    /\ UNCHANGED <<envVars, sessVars, action, idx, exiting, startRes, success,
                   runs, sigs, histVars>>

\* main "start": `start_containers() and wait_for_containers()`;
\* run_full_test_cycle: `if not self.start_containers(): return False`
start_returned ==
    /\ pc = "start_ret"
    /\ IF startRes = "True"
       THEN pc' = "w_pg" /\ polls' = 1 /\ UNCHANGED exitCode
       ELSE /\ UNCHANGED polls
            /\ IF action = "test" THEN pc' = "cl_begin" /\ UNCHANGED exitCode
               ELSE Exit(1)
    /\ UNCHANGED <<envVars, sessVars, action, idx, exiting, startRes, success,
                   runs, sigs, histVars>>

\* variant: the cycle ignores the result of wait_for_containers
wait_sleep_proceeds ==
    /\ pc = "w_sleep"
    /\ \/ /\ polls < MaxPolls
          /\ polls' = polls + 1 /\ pc' = "w_pg"
          /\ UNCHANGED <<timedOut, exitCode>>
       \/ /\ timedOut' = TRUE
          /\ IF action = "test" THEN pc' = "tests" /\ UNCHANGED exitCode
             ELSE Exit(1)
          /\ UNCHANGED polls
    /\ UNCHANGED <<envVars, sessVars, action, idx, exiting, startRes, success,
                   runs, sigs, sigSeen, sigAfterStart, cleanupCalls,
                   cleanupDone, cleanupRaised, cleanupAborted, sessStarted,
                   sessPod, sessUp, startCmds, cleanupCmds, preHealthy,
                   preBusy, portsPre, allocErr, fallback, pollPassed,
                   testsRun>>

\* variant: the loop condition never sees the timeout
wait_sleep_no_timeout ==
    /\ pc = "w_sleep"
    /\ pc' = "w_pg"
    /\ UNCHANGED <<envVars, sessVars, action, idx, polls, exiting, startRes,
                   success, exitCode, runs, sigs, histVars>>

\* wait_for_containers: sleep, then the loop condition
wait_sleep ==
    /\ pc = "w_sleep"
    /\ \/ /\ polls < MaxPolls
          /\ polls' = polls + 1 /\ pc' = "w_pg"
          /\ UNCHANGED <<timedOut, exitCode>>
       \/ /\ timedOut' = TRUE
          /\ IF action = "test" THEN pc' = "cl_begin" /\ UNCHANGED exitCode
             ELSE Exit(1)
          /\ UNCHANGED polls
    /\ UNCHANGED <<envVars, sessVars, action, idx, exiting, startRes, success,
                   runs, sigs, sigSeen, sigAfterStart, cleanupCalls,
                   cleanupDone, cleanupRaised, cleanupAborted, sessStarted,
                   sessPod, sessUp, startCmds, cleanupCmds, preHealthy,
                   preBusy, portsPre, allocErr, fallback, pollPassed,
                   testsRun>>

\* run_tests and `success = test_success`
run_tests ==
    /\ pc = "tests"
    /\ testsRun' = TRUE
    /\ \E rc0 \in BOOLEAN : success' = rc0
    /\ pc' = "cl_begin"
    /\ UNCHANGED <<envVars, sessVars, action, idx, polls, exiting, startRes,
                   exitCode, runs, sigs, sigSeen, sigAfterStart, cleanupCalls,
                   cleanupDone, cleanupRaised, cleanupAborted, sessStarted,
                   sessPod, sessUp, startCmds, cleanupCmds, preHealthy,
                   preBusy, portsPre, allocErr, fallback, pollPassed,
                   timedOut>>

\* ------------------------------------------------------------------ cleanup
\* cleanup(): entry and the test of self.runtime.name
cleanup_begin ==
    /\ pc = "cl_begin"
    /\ cleanupCalls' = cleanupCalls + 1
    /\ cleanupCmds' = {}
    /\ idx' = 1
    /\ IF runtime = "none"
       THEN \* None has no attribute `name`
            IF cleanup_catches("AttributeError")
            THEN pc' = "cl_ret" /\ UNCHANGED <<exitCode, cleanupRaised>>
            ELSE cleanupRaised' = TRUE /\ Exit(1)
       ELSE /\ pc' = IF runtime = "podman"
                     THEN (IF containers = <<>> THEN "cl_pod_rm" ELSE "cl_stop")
                     ELSE "cl_down"
            /\ UNCHANGED <<exitCode, cleanupRaised>>
    /\ UNCHANGED <<envVars, sessVars, action, polls, exiting, startRes,
                   success, runs, sigs, sigSeen, sigAfterStart, cleanupDone,
                   cleanupAborted, sessStarted, sessPod, sessUp, startCmds,
                   preHealthy, preBusy, portsPre, allocErr, fallback,
                   pollPassed, timedOut, testsRun>>

\* cleanup(): `podman stop` of the idx-th tracked container
cleanup_stop ==
    /\ pc = "cl_stop"
    /\ StopEffect(containers[idx])
    /\ cleanupCmds' = cleanupCmds \cup {<<"stop", containers[idx]>>}
    /\ pc' = "cl_rm"
    /\ UNCHANGED <<installed, envPod, envInPod, pubPorts, extBusy, sessVars,
                   action, idx, polls, exiting, startRes, success, exitCode,
                   runs, sigs, sigSeen, sigAfterStart, cleanupCalls,
                   cleanupDone, cleanupRaised, cleanupAborted, sessStarted,
                   sessPod, sessUp, startCmds, preHealthy, preBusy, portsPre,
                   allocErr, fallback, pollPassed, timedOut, testsRun>>

\* cleanup(): `podman rm` of the idx-th tracked container
cleanup_rm ==
    /\ pc = "cl_rm"
    /\ RmEffect(containers[idx])
    /\ cleanupCmds' = cleanupCmds \cup {<<"rm", containers[idx]>>}
    /\ IF idx < Len(containers)
       THEN pc' = "cl_stop" /\ idx' = idx + 1
       ELSE pc' = "cl_pod_rm" /\ idx' = 1
    /\ UNCHANGED <<installed, envRunning, envHealthy, envPod, pubPorts,
                   extBusy, sessVars, action, polls, exiting, startRes,
                   success, exitCode, runs, sigs, sigSeen, sigAfterStart,
                   cleanupCalls, cleanupDone, cleanupRaised, cleanupAborted,
                   sessStarted, sessPod, sessUp, startCmds, preHealthy,
                   preBusy, portsPre, allocErr, fallback, pollPassed, timedOut,
                   testsRun>>

\* cleanup(): `podman pod rm test-env`
cleanup_pod_rm ==
    /\ pc = "cl_pod_rm"
    /\ PodRmEffect
    /\ cleanupCmds' = cleanupCmds \cup {<<"pod", "rm">>}
    /\ pc' = "cl_ret"
    /\ UNCHANGED <<installed, envRunning, envHealthy, extBusy, sessVars,
                   action, idx, polls, exiting, startRes, success, exitCode,
                   runs, sigs, sigSeen, sigAfterStart, cleanupCalls,
                   cleanupDone, cleanupRaised, cleanupAborted, sessStarted,
                   sessPod, sessUp, startCmds, preHealthy, preBusy, portsPre,
                   allocErr, fallback, pollPassed, timedOut, testsRun>>

\* cleanup(): `<compose> -f <file> down -v`
cleanup_down ==
    /\ pc = "cl_down"
    /\ cleanupCmds' = cleanupCmds \cup {<<"compose", "down", "-v">>}
    /\ envRunning' = envRunning \ Containers
    /\ envHealthy' = envHealthy \ Containers
    /\ pubPorts' = {}
    /\ pc' = "cl_ret"
    /\ UNCHANGED <<installed, envPod, envInPod, extBusy, sessVars, action, idx,
                   polls, exiting, startRes, success, exitCode, runs, sigs,
                   sigSeen, sigAfterStart, cleanupCalls, cleanupDone,
                   cleanupRaised, cleanupAborted, sessStarted, sessPod, sessUp,
                   startCmds, preHealthy, preBusy, portsPre, allocErr,
                   fallback, pollPassed, timedOut, testsRun>>

\* cleanup() returns: to main ("stop": exit 0) or to the end of the cycle
\* (a propagating SystemExit carries status 1)
cleanup_return ==
    /\ pc = "cl_ret"
    /\ cleanupDone' = TRUE
    /\ IF action = "stop" THEN Exit(0)
       ELSE Exit(IF ~exiting /\ success THEN 0 ELSE 1)
    /\ UNCHANGED <<envVars, sessVars, action, idx, polls, exiting, startRes,
                   success, runs, sigs, sigSeen, sigAfterStart, cleanupCalls,
                   cleanupRaised, cleanupAborted, sessStarted, sessPod, sessUp,
                   startCmds, cleanupCmds, preHealthy, preBusy, portsPre,
                   allocErr, fallback, pollPassed, timedOut, testsRun>>

\* ------------------------------------------------------------------ signals
\* A signal reaches the process while it is blocked in a subprocess call or
\* in time.sleep; the handler's SystemExit surfaces at that call.
BlockingPcs == {"detect", "alloc", "ps", "ce_pg", "ce_mongo", "ex_stop",
                "ex_rm", "ex_pod_rm", "pod_create", "run_pg", "run_mongo",
                "compose_up", "w_pg", "w_mongo", "w_sleep", "tests",
                "cl_stop", "cl_rm", "cl_pod_rm", "cl_down"}

\* bookkeeping common to every delivery
Delivered ==
    /\ sigs < MaxSignals
    /\ pc \in BlockingPcs
    /\ sigs' = sigs + 1
    /\ sigSeen' = TRUE
    /\ sigAfterStart' = (sigAfterStart \/ SessionCreated)
    /\ cleanupAborted' = (cleanupAborted \/ pc \in CleanupPcs)

\* where the SystemExit of sys.exit(1) takes control: it passes every
\* `except Exception`; inside the try block of run_full_test_cycle it reaches
\* the finally block, anywhere else (main "start"/"stop"/"runtime", or inside
\* cleanup) the process exits
Unwind ==
    IF action = "test" /\ pc \notin CleanupPcs
    THEN pc' = "cl_begin" /\ exiting' = TRUE /\ UNCHANGED exitCode
    ELSE Exit(1) /\ UNCHANGED exiting

\* signal_handler, the interrupted command not having taken effect
signal_handler ==
    /\ Delivered
    /\ pc \notin HealthPcs
    /\ Unwind
    /\ UNCHANGED <<envVars, sessVars, action, idx, polls, startRes, success,
                   runs, cleanupCalls, cleanupDone, cleanupRaised, sessStarted,
                   sessPod, sessUp, startCmds, cleanupCmds, preHealthy,
                   preBusy, portsPre, allocErr, fallback, pollPassed, timedOut,
                   testsRun>>

\* signal_handler during `podman run` after the engine has started the
\* container: the SystemExit skips self.containers.append
signal_during_run ==
    /\ Delivered
    /\ pc \in {"run_pg", "run_mongo"}
    /\ LET c == IF pc = "run_pg" THEN "test-postgres" ELSE "test-mongo"
       IN  RunEffect(c) /\ startCmds' = startCmds \cup {<<"run", c>>}
    /\ Unwind
    /\ UNCHANGED <<installed, envHealthy, envPod, extBusy, sessVars, action,
                   idx, polls, startRes, success, runs, cleanupCalls,
                   cleanupDone, cleanupRaised, sessPod, sessUp, cleanupCmds,
                   preHealthy, preBusy, portsPre, allocErr, fallback,
                   pollPassed, timedOut, testsRun>>

\* the signal arrives inside _check_postgres_health / _check_mongo_health:
\* the bare `except:` catches the SystemExit and the check returns False
signal_in_health_check ==
    /\ Delivered
    /\ pc \in HealthPcs
    /\ IF pc \in {"ce_pg", "w_pg"}
       THEN /\ pc' = AfterPostgresHealth(pc, FALSE)
            /\ UNCHANGED <<startRes, exitCode, pollPassed>>
       ELSE AfterMongoHealth(pc, FALSE)
    /\ idx' = 1
    /\ UNCHANGED <<envVars, sessVars, action, polls, exiting, success, runs,
                   cleanupCalls, cleanupDone, cleanupRaised, sessStarted,
                   sessPod, sessUp, startCmds, cleanupCmds, preHealthy,
                   preBusy, portsPre, allocErr, fallback, timedOut, testsRun>>

\* -------------------------------------------------------------- environment
\* a running container finishes its initialisation
EnvReady ==
    /\ pc # "exit"
    /\ \E c \in envRunning \ envHealthy : envHealthy' = envHealthy \cup {c}
    /\ UNCHANGED <<installed, envRunning, envPod, envInPod, pubPorts, extBusy,
                   sessVars, ctlVars, histVars>>

\* a running container exits on its own
EnvGone ==
    /\ pc # "exit"
    /\ \E c \in envRunning : StopEffect(c)
    /\ UNCHANGED <<installed, envPod, envInPod, pubPorts, extBusy, sessVars,
                   ctlVars, histVars>>

\* the next orchestrator process is launched on the same host
Relaunch ==
    /\ pc = "exit"
    /\ runs < MaxRuns
    /\ runs' = runs + 1
    /\ \E a \in Actions : FreshProcessNext(a)
    /\ UNCHANGED envVars

\* the registry and the port finder take no part in an orchestrator run
OrchOnly ==
    UNCHANGED <<regVars, regHist, findVars, concVars, detVars, chkVars>>

Next ==
    \/ detect_runtime /\ OrchOnly
    \/ allocate_ports /\ OrchOnly
    \/ check_containers_exist /\ OrchOnly
    \/ check_postgres_health /\ OrchOnly
    \/ check_mongo_health /\ OrchOnly
    \/ cleanup_existing_stop /\ OrchOnly
    \/ cleanup_existing_rm /\ OrchOnly
    \/ cleanup_existing_pod_rm /\ OrchOnly
    \/ pod_create /\ OrchOnly
    \/ run_postgres /\ OrchOnly
    \/ run_mongo /\ OrchOnly
    \/ compose_up /\ OrchOnly
    \/ start_returned /\ OrchOnly
    \/ wait_sleep /\ OrchOnly
    \/ run_tests /\ OrchOnly
    \/ cleanup_begin /\ OrchOnly
    \/ cleanup_stop /\ OrchOnly
    \/ cleanup_rm /\ OrchOnly
    \/ cleanup_pod_rm /\ OrchOnly
    \/ cleanup_down /\ OrchOnly
    \/ cleanup_return /\ OrchOnly
    \/ signal_handler /\ OrchOnly
    \/ signal_during_run /\ OrchOnly
    \/ signal_in_health_check /\ OrchOnly
    \/ EnvReady /\ OrchOnly
    \/ EnvGone /\ OrchOnly
    \/ Relaunch /\ OrchOnly


Spec == Init /\ [][Next]_vars

\* the steps of wait_for_containers: a health command returns within its
\* timeout of 10 s (or raises, which the check catches) and time.sleep(5)
\* returns, so a process inside the loop takes its next step
WaitStep ==
    (check_postgres_health \/ check_mongo_health \/ wait_sleep) /\ OrchOnly

LiveSpec == Spec /\ WF_vars(WaitStep)


\* ==================================================== PortManager (registry)
\* number of events (PortManager constructions and mutating calls) in one run
\* of the model
MaxEvents == 4

\* variant: the persisted cursor is taken as it is
LoadResultUnclamped(f, b) ==
    IF f.state = "json"
    THEN [assigned_ports |-> f.assignments, current_port |-> f.next_port]
    ELSE [assigned_ports |-> NoAssignments, current_port |-> b]

\* _load_assignments applied to a file content by a manager with base b
LoadResult(f, b) ==
    IF f.state = "json"
    THEN [assigned_ports |-> f.assignments,
          current_port |-> IF f.next_port < b THEN b ELSE f.next_port]
    ELSE [assigned_ports |-> NoAssignments, current_port |-> b]

\* variant: base_port is written in the place of the cursor
SaveContentBaseAsCursor(p) ==
    [state |-> "json", base_port |-> base_port[p],
     next_port |-> base_port[p], assignments |-> assigned_ports[p]]

\* the object _save_assignments would write for process p now
SaveContent(p) ==
    [state |-> "json", base_port |-> base_port[p],
     next_port |-> current_port[p], assignments |-> assigned_ports[p]]

\* _get_timestamp: the time of the call
get_timestamp == clock

RegHistKeep == UNCHANGED <<loaded, issued, saved>>

\* the thread moves on; its call stays
Goto(p, t, l) == tpc' = [tpc EXCEPT ![p][t] = l]

\* `return v` inside `with self.lock`
ReturnUnlock(p, t, v) ==
    /\ ret' = [ret EXCEPT ![p][t] = v]
    /\ lock' = [lock EXCEPT ![p] = 0]
    /\ Goto(p, t, "done")

\* PortManager.__init__ in process p with base port b
construct(p, b) ==
    /\ ~alive[p] /\ clock < MaxEvents
    /\ LET r == LoadResult(port_file, b)
       IN  /\ alive' = [alive EXCEPT ![p] = TRUE]
           /\ base_port' = [base_port EXCEPT ![p] = b]
           /\ current_port' = [current_port EXCEPT ![p] = r.current_port]
           /\ assigned_ports' = [assigned_ports EXCEPT ![p] = r.assigned_ports]
           /\ loaded' = [loaded EXCEPT ![p] = [file |-> port_file,
                                              cursor |-> r.current_port]]
           /\ issued' = [issued EXCEPT ![p] =
                  {<<x, r.assigned_ports[x].port>> :
                      x \in DOMAIN r.assigned_ports}]
           /\ lin' = [lin EXCEPT ![p] =
                        [next |-> r.current_port,
                         ports |-> get_service_ports(r.assigned_ports)]]
    /\ lock' = [lock EXCEPT ![p] = 0]
    /\ tpc' = [tpc EXCEPT ![p] = [t \in Threads |-> "idle"]]
    /\ call' = [call EXCEPT ![p] = [t \in Threads |-> NoCall]]
    /\ assigned_port' = [assigned_port EXCEPT ![p] = [t \in Threads |-> 0]]
    /\ ret' = [ret EXCEPT ![p] = [t \in Threads |-> NoRet]]
    /\ linRet' = [linRet EXCEPT ![p] = [t \in Threads |-> NoRet]]
    /\ clock' = clock + 1
    /\ saved' = [saved EXCEPT ![p] = MissingFile]
    /\ UNCHANGED port_file

\* the end of process p: its memory is gone, the file stays
ProcessGone(p) ==
    /\ alive' = [alive EXCEPT ![p] = FALSE]
    /\ base_port' = [base_port EXCEPT ![p] = DefaultBasePort]
    /\ current_port' = [current_port EXCEPT ![p] = DefaultBasePort]
    /\ assigned_ports' = [assigned_ports EXCEPT ![p] = NoAssignments]
    /\ lock' = [lock EXCEPT ![p] = 0]
    /\ tpc' = [tpc EXCEPT ![p] = [t \in Threads |-> "idle"]]
    /\ call' = [call EXCEPT ![p] = [t \in Threads |-> NoCall]]
    /\ assigned_port' = [assigned_port EXCEPT ![p] = [t \in Threads |-> 0]]
    /\ ret' = [ret EXCEPT ![p] = [t \in Threads |-> NoRet]]
    /\ loaded' = [loaded EXCEPT ![p] = [file |-> MissingFile, cursor |-> 0]]
    /\ issued' = [issued EXCEPT ![p] = {}]
    /\ lin' = [lin EXCEPT ![p] = [next |-> 0, ports |-> <<>>]]
    /\ linRet' = [linRet EXCEPT ![p] = [t \in Threads |-> NoRet]]
    /\ saved' = [saved EXCEPT ![p] = MissingFile]
    /\ UNCHANGED clock

\* the process ends while no call is running
process_exit(p) ==
    /\ alive[p] /\ \A t \in Threads : tpc[p][t] = "idle"
    /\ ProcessGone(p)
    /\ UNCHANGED port_file

\* a call is taken by the first thread that is free
FirstFree(p, t) ==
    /\ tpc[p][t] = "idle"
    /\ \A t2 \in Threads : t2 < t => tpc[p][t2] # "idle"

\* a thread starts a call
StartCall(p, t, c, l) ==
    /\ alive[p] /\ FirstFree(p, t) /\ clock < MaxEvents
    /\ call' = [call EXCEPT ![p][t] = c]
    /\ Goto(p, t, l)
    /\ clock' = clock + 1
    /\ UNCHANGED <<port_file, alive, base_port, current_port, assigned_ports,
                   lock, assigned_port, ret, lin, linRet>>
    /\ RegHistKeep

call_assign_port(p, t) ==
    \E s \in RegServices, u \in Purposes :
        StartCall(p, t, [op |-> "assign_port", service_name |-> s,
                         purpose |-> u], "lock")

call_release_port(p, t) ==
    \E s \in RegServices :
        StartCall(p, t, [op |-> "release_port", service_name |-> s,
                         purpose |-> ""], "lock")

call_reset_assignments(p, t) ==
    StartCall(p, t, [op |-> "reset_assignments", service_name |-> "",
                     purpose |-> ""], "lock")

\* the calls in the order in which they take the lock: what each returns and
\* the state it leaves when the calls run one after the other
LinStep(p, t) ==
    LET c == call[p][t]
        l == lin[p]
        s == c.service_name
    IN  CASE c.op = "assign_port" ->
               IF s \in DOMAIN l.ports
               THEN /\ lin' = lin
                    /\ linRet' = [linRet EXCEPT ![p][t] = RetInt(l.ports[s])]
               ELSE /\ lin' = [lin EXCEPT ![p] =
                          [next |-> l.next + 1,
                           ports |-> [x \in DOMAIN l.ports \cup {s} |->
                                        IF x = s THEN l.next ELSE l.ports[x]]]]
                    /\ linRet' = [linRet EXCEPT ![p][t] = RetInt(l.next)]
          [] c.op = "release_port" ->
               /\ lin' = [lin EXCEPT ![p].ports =
                            [x \in DOMAIN l.ports \ {s} |-> l.ports[x]]]
               /\ linRet' = [linRet EXCEPT ![p][t] =
                               RetBool(s \in DOMAIN l.ports)]
          [] OTHER ->
               /\ lin' = [lin EXCEPT ![p] = [next |-> base_port[p],
                                             ports |-> <<>>]]
               /\ linRet' = [linRet EXCEPT ![p][t] = RetNone]

\* variant: the body is entered without waiting for the lock
lock_available_unguarded(p) == lock[p] \in {0} \cup Threads

\* self.lock can be taken
lock_available(p) == lock[p] = 0

\* `with self.lock:` of assign_port, release_port and reset_assignments
acquire_lock(p, t) ==
    /\ alive[p] /\ tpc[p][t] = "lock" /\ lock_available(p)
    /\ lock' = [lock EXCEPT ![p] = t]
    /\ Goto(p, t, CASE call[p][t].op = "assign_port" -> "assign_check"
                    [] call[p][t].op = "release_port" -> "release_check"
                    [] OTHER -> "reset_clear")
    /\ LinStep(p, t)
    /\ UNCHANGED <<port_file, alive, base_port, current_port, assigned_ports,
                   call, assigned_port, ret, clock>>
    /\ RegHistKeep

\* variant: the existing assignment is not looked up
assign_has_entry_never(p, s) == FALSE

\* `service_name in self.assigned_ports`
assign_has_entry(p, s) == s \in DOMAIN assigned_ports[p]

\* assign_port, lines 71-72: an existing assignment is returned
assign_check(p, t) ==
    /\ alive[p] /\ tpc[p][t] = "assign_check"
    /\ LET s == call[p][t].service_name
       IN  IF assign_has_entry(p, s)
           THEN ReturnUnlock(p, t, RetInt(assigned_ports[p][s].port))
           ELSE Goto(p, t, "assign_take") /\ UNCHANGED <<ret, lock>>
    /\ UNCHANGED <<port_file, alive, base_port, current_port, assigned_ports,
                   call, assigned_port, clock, lin, linRet>>
    /\ RegHistKeep

\* variant: the file is read again, under a lock shared by the processes,
\* before the port is taken
assign_take_from_file(p, t) ==
    /\ alive[p] /\ tpc[p][t] = "assign_take"
    /\ LET s == call[p][t].service_name
           r == LoadResult(port_file, base_port[p])
           m == r.assigned_ports
           e == [port |-> r.current_port, purpose |-> call[p][t].purpose,
                 assigned_at |-> get_timestamp]
       IN  /\ assigned_port' = [assigned_port EXCEPT ![p][t] = r.current_port]
           /\ current_port' = [current_port EXCEPT ![p] = r.current_port]
           /\ assigned_ports' = [assigned_ports EXCEPT ![p] =
                  [x \in DOMAIN m \cup {s} |-> IF x = s THEN e ELSE m[x]]]
    /\ Goto(p, t, "assign_incr")
    /\ UNCHANGED <<port_file, alive, base_port, lock, call, ret, clock, lin,
                   linRet>>
    /\ RegHistKeep

\* assign_port, lines 75-80: the cursor becomes the service's port
assign_take(p, t) ==
    /\ alive[p] /\ tpc[p][t] = "assign_take"
    /\ LET s == call[p][t].service_name
           m == assigned_ports[p]
           e == [port |-> current_port[p], purpose |-> call[p][t].purpose,
                 assigned_at |-> get_timestamp]
       IN  /\ assigned_port' = [assigned_port EXCEPT ![p][t] = current_port[p]]
           /\ assigned_ports' = [assigned_ports EXCEPT ![p] =
                  [x \in DOMAIN m \cup {s} |-> IF x = s THEN e ELSE m[x]]]
    /\ Goto(p, t, "assign_incr")
    /\ UNCHANGED <<port_file, alive, base_port, current_port, lock, call, ret,
                   clock, lin, linRet>>
    /\ RegHistKeep

\* variant: the cursor is not advanced
assign_incr_skipped(p, t) ==
    /\ alive[p] /\ tpc[p][t] = "assign_incr"
    /\ Goto(p, t, "assign_save")
    /\ UNCHANGED <<port_file, alive, base_port, current_port, assigned_ports,
                   lock, call, assigned_port, ret, clock, lin, linRet>>
    /\ RegHistKeep

\* assign_port, line 83
assign_incr(p, t) ==
    /\ alive[p] /\ tpc[p][t] = "assign_incr"
    /\ current_port' = [current_port EXCEPT ![p] = current_port[p] + 1]
    /\ Goto(p, t, "assign_save")
    /\ UNCHANGED <<port_file, alive, base_port, assigned_ports, lock, call,
                   assigned_port, ret, clock, lin, linRet>>
    /\ RegHistKeep

\* _save_assignments called by the thread at position l; it goes on at l2
Save(p, t, l, l2) ==
    /\ alive[p] /\ tpc[p][t] = l
    /\ port_file' = SaveContent(p)
    /\ saved' = [saved EXCEPT ![p] = SaveContent(p)]
    /\ Goto(p, t, l2)
    /\ UNCHANGED <<alive, base_port, current_port, assigned_ports, lock, call,
                   assigned_port, ret, clock, lin, linRet, loaded,
                   issued>>

\* assign_port, line 86
assign_save(p, t) == Save(p, t, "assign_save", "assign_ret")

\* assign_port, line 88
assign_return(p, t) ==
    /\ alive[p] /\ tpc[p][t] = "assign_ret"
    /\ ReturnUnlock(p, t, RetInt(assigned_port[p][t]))
    /\ issued' = [issued EXCEPT ![p] =
                    @ \cup {<<call[p][t].service_name, assigned_port[p][t]>>}]
    /\ UNCHANGED <<port_file, alive, base_port, current_port, assigned_ports,
                   call, assigned_port, clock, lin, linRet, loaded, saved>>

\* variant: the cursor is taken back by one when an entry is removed
release_check_rewinds(p, t) ==
    /\ alive[p] /\ tpc[p][t] = "release_check"
    /\ LET s == call[p][t].service_name
           m == assigned_ports[p]
       IN  IF s \in DOMAIN m
           THEN /\ assigned_ports' = [assigned_ports EXCEPT ![p] =
                                        [x \in DOMAIN m \ {s} |-> m[x]]]
                /\ current_port' = [current_port EXCEPT ![p] = @ - 1]
                /\ Goto(p, t, "release_save")
                /\ UNCHANGED <<ret, lock>>
           ELSE /\ ReturnUnlock(p, t, RetBool(FALSE))
                /\ UNCHANGED <<assigned_ports, current_port>>
    /\ UNCHANGED <<port_file, alive, base_port, call, assigned_port, clock,
                   lin, linRet>>
    /\ RegHistKeep

\* release_port, lines 103-104 and 107
release_check(p, t) ==
    /\ alive[p] /\ tpc[p][t] = "release_check"
    /\ LET s == call[p][t].service_name
           m == assigned_ports[p]
       IN  IF s \in DOMAIN m
           THEN /\ assigned_ports' = [assigned_ports EXCEPT ![p] =
                                        [x \in DOMAIN m \ {s} |-> m[x]]]
                /\ Goto(p, t, "release_save")
                /\ UNCHANGED <<ret, lock>>
           ELSE /\ ReturnUnlock(p, t, RetBool(FALSE))
                /\ UNCHANGED assigned_ports
    /\ UNCHANGED <<port_file, alive, base_port, current_port, call,
                   assigned_port, clock, lin, linRet>>
    /\ RegHistKeep

\* release_port, line 105
release_save(p, t) == Save(p, t, "release_save", "release_ret")

\* release_port, line 106
release_return(p, t) ==
    /\ alive[p] /\ tpc[p][t] = "release_ret"
    /\ ReturnUnlock(p, t, RetBool(TRUE))
    /\ UNCHANGED <<port_file, alive, base_port, current_port, assigned_ports,
                   call, assigned_port, clock, lin, linRet>>
    /\ RegHistKeep

\* reset_assignments, line 112
reset_clear(p, t) ==
    /\ alive[p] /\ tpc[p][t] = "reset_clear"
    /\ assigned_ports' = [assigned_ports EXCEPT ![p] = NoAssignments]
    /\ Goto(p, t, "reset_rewind")
    /\ UNCHANGED <<port_file, alive, base_port, current_port, lock, call,
                   assigned_port, ret, clock, lin, linRet>>
    /\ RegHistKeep

\* variant: the cursor goes back to the default base port
reset_rewind_default(p, t) ==
    /\ alive[p] /\ tpc[p][t] = "reset_rewind"
    /\ current_port' = [current_port EXCEPT ![p] = DefaultBasePort]
    /\ issued' = [issued EXCEPT ![p] = {}]
    /\ Goto(p, t, "reset_save")
    /\ UNCHANGED <<port_file, alive, base_port, assigned_ports, lock, call,
                   assigned_port, ret, clock, lin, linRet, loaded, saved>>

\* reset_assignments, line 113
reset_rewind(p, t) ==
    /\ alive[p] /\ tpc[p][t] = "reset_rewind"
    /\ current_port' = [current_port EXCEPT ![p] = base_port[p]]
    /\ issued' = [issued EXCEPT ![p] = {}]
    /\ Goto(p, t, "reset_save")
    /\ UNCHANGED <<port_file, alive, base_port, assigned_ports, lock, call,
                   assigned_port, ret, clock, lin, linRet, loaded,
                   saved>>

\* reset_assignments, line 114
reset_save(p, t) == Save(p, t, "reset_save", "reset_ret")

\* reset_assignments returns None and leaves the `with` block
reset_return(p, t) ==
    /\ alive[p] /\ tpc[p][t] = "reset_ret"
    /\ ReturnUnlock(p, t, RetNone)
    /\ UNCHANGED <<port_file, alive, base_port, current_port, assigned_ports,
                   call, assigned_port, clock, lin, linRet>>
    /\ RegHistKeep

\* a reader: the whole call is one step, no lock is taken
Reader(p, t, c, v) ==
    /\ alive[p] /\ FirstFree(p, t)
    /\ call' = [call EXCEPT ![p][t] = c]
    /\ ret' = [ret EXCEPT ![p][t] = v]
    /\ Goto(p, t, "done")
    /\ UNCHANGED <<port_file, alive, base_port, current_port, assigned_ports,
                   lock, assigned_port, clock, lin, linRet>>
    /\ RegHistKeep

\* get_port, lines 90-94
get_port(p, t) ==
    \E s \in RegServices :
        Reader(p, t, [op |-> "get_port", service_name |-> s, purpose |-> ""],
               IF s \in DOMAIN assigned_ports[p]
               THEN RetInt(assigned_ports[p][s].port) ELSE RetNone)

\* get_next_port, lines 96-98
get_next_port(p, t) ==
    Reader(p, t, [op |-> "get_next_port", service_name |-> "", purpose |-> ""],
           RetInt(current_port[p]))

\* the caller has the result; the thread is free for the next call
call_done(p, t) ==
    /\ alive[p] /\ tpc[p][t] = "done"
    /\ Goto(p, t, "idle")
    /\ call' = [call EXCEPT ![p][t] = NoCall]
    /\ ret' = [ret EXCEPT ![p][t] = NoRet]
    /\ linRet' = [linRet EXCEPT ![p][t] = NoRet]
    /\ assigned_port' = [assigned_port EXCEPT ![p][t] = 0]
    /\ UNCHANGED <<port_file, alive, base_port, current_port, assigned_ports,
                   lock, clock, lin>>
    /\ RegHistKeep

\* the process is killed inside _save_assignments, after open(..., 'w') has
\* truncated the file and before json.dump has written all of it
killed_in_save(p, t) ==
    /\ alive[p] /\ tpc[p][t] \in {"assign_save", "release_save", "reset_save"}
    /\ port_file' = CorruptFile
    /\ ProcessGone(p)

\* the orchestrator and the port finder take no part in a registry run
RegOnly ==
    UNCHANGED <<orchVars, findVars, concVars, detVars, chkVars, env_vars>>

\* a state of the orchestrator in which it does nothing
OrchIdle ==
    /\ installed = {} /\ extBusy = {} /\ envRunning = {} /\ envHealthy = {}
    /\ envPod = FALSE /\ envInPod = {} /\ pubPorts = {}
    /\ runs = 1
    /\ FreshProcess("runtime")

RegInit ==
    RegIdle /\ OrchIdle /\ FindIdle /\ ConcIdle /\ DetIdle /\ ChkIdle

\* one process with its threads; the process may end and be started again
RegNext ==
    \/ (\E b \in BasePorts : construct(1, b)) /\ RegOnly
    \/ process_exit(1) /\ RegOnly
    \/ (\E t \in Threads : call_assign_port(1, t)) /\ RegOnly
    \/ (\E t \in Threads : call_release_port(1, t)) /\ RegOnly
    \/ (\E t \in Threads : call_reset_assignments(1, t)) /\ RegOnly
    \/ (\E t \in Threads : acquire_lock(1, t)) /\ RegOnly
    \/ (\E t \in Threads : assign_check(1, t)) /\ RegOnly
    \/ (\E t \in Threads : assign_take(1, t)) /\ RegOnly
    \/ (\E t \in Threads : assign_incr(1, t)) /\ RegOnly
    \/ (\E t \in Threads : assign_save(1, t)) /\ RegOnly
    \/ (\E t \in Threads : assign_return(1, t)) /\ RegOnly
    \/ (\E t \in Threads : release_check(1, t)) /\ RegOnly
    \/ (\E t \in Threads : release_save(1, t)) /\ RegOnly
    \/ (\E t \in Threads : release_return(1, t)) /\ RegOnly
    \/ (\E t \in Threads : reset_clear(1, t)) /\ RegOnly
    \/ (\E t \in Threads : reset_rewind(1, t)) /\ RegOnly
    \/ (\E t \in Threads : reset_save(1, t)) /\ RegOnly
    \/ (\E t \in Threads : reset_return(1, t)) /\ RegOnly
    \/ (\E t \in Threads : get_port(1, t)) /\ RegOnly
    \/ (\E t \in Threads : get_next_port(1, t)) /\ RegOnly
    \/ (\E t \in Threads : call_done(1, t)) /\ RegOnly
    \/ (\E t \in Threads : killed_in_save(1, t)) /\ RegOnly

RegSpec == RegInit /\ [][RegNext]_vars

\* two processes, one calling thread each, on the same backing file
RaceNext ==
    \/ (\E p \in Procs, b \in BasePorts : construct(p, b)) /\ RegOnly
    \/ (\E p \in Procs : call_assign_port(p, 1)) /\ RegOnly
    \/ (\E p \in Procs : acquire_lock(p, 1)) /\ RegOnly
    \/ (\E p \in Procs : assign_check(p, 1)) /\ RegOnly
    \/ (\E p \in Procs : assign_take(p, 1)) /\ RegOnly
    \/ (\E p \in Procs : assign_incr(p, 1)) /\ RegOnly
    \/ (\E p \in Procs : assign_save(p, 1)) /\ RegOnly
    \/ (\E p \in Procs : assign_return(p, 1)) /\ RegOnly
    \/ (\E p \in Procs : call_done(p, 1)) /\ RegOnly

RaceSpec == RegInit /\ [][RaceNext]_vars


\* ======================================== find_sequential_ports as a program
\* arguments and busy ports the calls are made with
FindBases == {BasePort, MaxPortNumber - 1}
FindCounts == -1 .. Len(Services)
FindBusySets ==
    (SUBSET (BasePort .. (BasePort + Len(Services))))
    \cup {BasePort .. (BasePort + max_attempts + 1),
          {MaxPortNumber - 1}, {MaxPortNumber}}

\* the bind of _is_port_available: it succeeds, fails with OSError (caught:
\* False), or raises OverflowError for a number that is no port
bind(port, busy) ==
    IF port \notin 0 .. MaxPortNumber THEN "OverflowError"
    ELSE IF port \in busy THEN "False" ELSE "True"

NoResult == [kind |-> "none", ports |-> <<>>]

FindReturns(k, ps) ==
    /\ f_result' = [kind |-> k, ports |-> ps]
    /\ f_pc' = "done"

\* variant: the count is not validated
find_entry_unchecked ==
    /\ f_pc = "entry"
    /\ f_current' = f_base /\ f_attempt' = 0
    /\ f_pc' = "attempt" /\ UNCHANGED f_result
    /\ UNCHANGED <<f_base, f_count, f_busy, f_i, f_ports, f_probed>>

\* lines 30-35: the count is validated, the search starts at base
find_entry ==
    /\ f_pc = "entry"
    /\ IF f_count < 1
       THEN /\ FindReturns("ValueError", <<>>)
            /\ UNCHANGED <<f_current, f_attempt>>
       ELSE /\ f_current' = f_base /\ f_attempt' = 0
            /\ f_pc' = "attempt" /\ UNCHANGED f_result
    /\ UNCHANGED <<f_base, f_count, f_busy, f_i, f_ports, f_probed>>

\* lines 37-39 and 60: the next iteration of `for _ in range(max_attempts)`
find_attempt ==
    /\ f_pc = "attempt"
    /\ IF f_attempt < max_attempts
       THEN /\ f_attempt' = f_attempt + 1
            /\ f_ports' = <<>> /\ f_i' = 0
            /\ f_pc' = "probe" /\ UNCHANGED f_result
       ELSE /\ FindReturns("RuntimeError", <<>>)
            /\ UNCHANGED <<f_attempt, f_ports, f_i>>
    /\ UNCHANGED <<f_base, f_count, f_busy, f_current, f_probed>>

\* variant: every probe of an attempt is made on the window's first port
find_probe_first_only ==
    /\ f_pc = "probe"
    /\ IF f_i < f_count
       THEN LET port == f_current + f_i
                b == bind(f_current, f_busy)
            IN  /\ f_probed' = Append(f_probed, f_current)
                /\ CASE b = "True" ->
                          /\ f_ports' = Append(f_ports, port)
                          /\ f_i' = f_i + 1
                          /\ UNCHANGED <<f_pc, f_result>>
                     [] b = "False" ->
                          /\ f_pc' = "advance"
                          /\ UNCHANGED <<f_ports, f_i, f_result>>
                     [] OTHER ->
                          /\ FindReturns("OverflowError", <<>>)
                          /\ UNCHANGED <<f_ports, f_i>>
       ELSE /\ FindReturns("list", f_ports)
            /\ UNCHANGED <<f_ports, f_i, f_probed>>
    /\ UNCHANGED <<f_base, f_count, f_busy, f_current, f_attempt>>

\* variant: the inner loop goes on after a busy port
find_probe_past_busy ==
    /\ f_pc = "probe"
    /\ IF f_i < f_count
       THEN LET port == f_current + f_i
                b == bind(port, f_busy)
            IN  /\ f_probed' = Append(f_probed, port)
                /\ CASE b = "True" ->
                          /\ f_ports' = Append(f_ports, port)
                          /\ f_i' = f_i + 1
                          /\ UNCHANGED <<f_pc, f_result>>
                     [] b = "False" ->
                          /\ f_i' = f_i + 1
                          /\ UNCHANGED <<f_ports, f_pc, f_result>>
                     [] OTHER ->
                          /\ FindReturns("OverflowError", <<>>)
                          /\ UNCHANGED <<f_ports, f_i>>
       ELSE /\ IF Len(f_ports) = f_count
               THEN FindReturns("list", f_ports)
               ELSE f_pc' = "advance" /\ UNCHANGED f_result
            /\ UNCHANGED <<f_ports, f_i, f_probed>>
    /\ UNCHANGED <<f_base, f_count, f_busy, f_current, f_attempt>>

\* lines 42-51: one pass of the inner loop, or the return of a full window
find_probe ==
    /\ f_pc = "probe"
    /\ IF f_i < f_count
       THEN LET port == f_current + f_i
                b == bind(port, f_busy)
            IN  /\ f_probed' = Append(f_probed, port)
                /\ CASE b = "True" ->
                          /\ f_ports' = Append(f_ports, port)
                          /\ f_i' = f_i + 1
                          /\ UNCHANGED <<f_pc, f_result>>
                     [] b = "False" ->
                          /\ f_pc' = "advance"
                          /\ UNCHANGED <<f_ports, f_i, f_result>>
                     [] OTHER ->
                          /\ FindReturns("OverflowError", <<>>)
                          /\ UNCHANGED <<f_ports, f_i>>
       ELSE /\ FindReturns("list", f_ports)
            /\ UNCHANGED <<f_ports, f_i, f_probed>>
    /\ UNCHANGED <<f_base, f_count, f_busy, f_current, f_attempt>>

\* variant: the window moves up by two
find_advance_by_two ==
    /\ f_pc = "advance"
    /\ f_current' = f_current + 2
    /\ IF (f_current + 2) + f_count - 1 > MaxPortNumber
       THEN FindReturns("RuntimeError", <<>>)
       ELSE f_pc' = "attempt" /\ UNCHANGED f_result
    /\ UNCHANGED <<f_base, f_count, f_busy, f_attempt, f_i, f_ports, f_probed>>

\* lines 53-60: the window moves up by one; past port 65535 the search ends
find_advance ==
    /\ f_pc = "advance"
    /\ f_current' = f_current + 1
    /\ IF (f_current + 1) + f_count - 1 > MaxPortNumber
       THEN FindReturns("RuntimeError", <<>>)
       ELSE f_pc' = "attempt" /\ UNCHANGED f_result
    /\ UNCHANGED <<f_base, f_count, f_busy, f_attempt, f_i, f_ports, f_probed>>

\* the orchestrator and the registry take no part in a search
FindOnly ==
    UNCHANGED <<orchVars, regVars, regHist, concVars, detVars, chkVars>>

FindInit ==
    /\ OrchIdle /\ RegIdle /\ ConcIdle /\ DetIdle /\ ChkIdle
    /\ f_base \in FindBases /\ f_count \in FindCounts
    /\ f_busy \in FindBusySets
    /\ f_pc = "entry" /\ f_current = 0 /\ f_attempt = 0 /\ f_i = 0
    /\ f_ports = <<>> /\ f_probed = <<>> /\ f_result = NoResult

FindNext ==
    \/ find_entry /\ FindOnly
    \/ find_attempt /\ FindOnly
    \/ find_probe /\ FindOnly
    \/ find_advance /\ FindOnly

FindSpec == FindInit /\ [][FindNext]_vars

\* the function is sequential code without blocking calls other than the
\* bind, which returns at once: a call that has not returned takes its next
\* step
FindLiveSpec == FindSpec /\ WF_vars(FindNext)

\* ============================ find_sequential_ports in concurrent threads
\* arguments the threads call with; no other process holds a port
ConcBases == {BasePort, MaxPortNumber - 1}
ConcCounts == 1 .. 2

\* ports bound at this moment by the probe sockets of the other threads
HeldByOthers(t) == {c_held[u] : u \in ConcThreads \ {t}}

ConcReturns(t, k, ps) ==
    /\ c_result' = [c_result EXCEPT ![t] = [kind |-> k, ports |-> ps]]
    /\ c_pc' = [c_pc EXCEPT ![t] = "done"]

\* lines 30-35 in thread t
conc_entry(t) ==
    /\ c_pc[t] = "entry"
    /\ IF c_count < 1
       THEN /\ ConcReturns(t, "ValueError", <<>>)
            /\ UNCHANGED <<c_current, c_attempt>>
       ELSE /\ c_current' = [c_current EXCEPT ![t] = c_base]
            /\ c_attempt' = [c_attempt EXCEPT ![t] = 0]
            /\ c_pc' = [c_pc EXCEPT ![t] = "attempt"]
            /\ UNCHANGED c_result
    /\ UNCHANGED <<c_base, c_count, c_i, c_ports, c_held>>

\* lines 37-39 and 60 in thread t
conc_attempt(t) ==
    /\ c_pc[t] = "attempt"
    /\ IF c_attempt[t] < max_attempts
       THEN /\ c_attempt' = [c_attempt EXCEPT ![t] = @ + 1]
            /\ c_ports' = [c_ports EXCEPT ![t] = <<>>]
            /\ c_i' = [c_i EXCEPT ![t] = 0]
            /\ c_pc' = [c_pc EXCEPT ![t] = "probe"]
            /\ UNCHANGED c_result
       ELSE /\ ConcReturns(t, "RuntimeError", <<>>)
            /\ UNCHANGED <<c_attempt, c_ports, c_i>>
    /\ UNCHANGED <<c_base, c_count, c_current, c_held>>

\* lines 42-51 and 307-311 in thread t: the socket of the probe is bound,
\* which fails while another thread's probe socket is bound to the port
conc_bind(t) ==
    /\ c_pc[t] = "probe"
    /\ IF c_i[t] < c_count
       THEN LET port == c_current[t] + c_i[t]
                b == bind(port, HeldByOthers(t))
            IN  CASE b = "True" ->
                       /\ c_held' = [c_held EXCEPT ![t] = port]
                       /\ c_pc' = [c_pc EXCEPT ![t] = "bound"]
                       /\ UNCHANGED c_result
                  [] b = "False" ->
                       /\ c_pc' = [c_pc EXCEPT ![t] = "advance"]
                       /\ UNCHANGED <<c_held, c_result>>
                  [] OTHER ->
                       /\ ConcReturns(t, "OverflowError", <<>>)
                       /\ UNCHANGED c_held
       ELSE /\ ConcReturns(t, "list", c_ports[t])
            /\ UNCHANGED c_held
    /\ UNCHANGED <<c_base, c_count, c_current, c_attempt, c_i, c_ports>>

\* lines 308-309 and 44-45 in thread t: `return True` leaves the with block,
\* which closes the socket; the port joins the thread's window
conc_close(t) ==
    /\ c_pc[t] = "bound"
    /\ c_ports' = [c_ports EXCEPT ![t] = Append(@, c_held[t])]
    /\ c_held' = [c_held EXCEPT ![t] = NoSocket]
    /\ c_i' = [c_i EXCEPT ![t] = @ + 1]
    /\ c_pc' = [c_pc EXCEPT ![t] = "probe"]
    /\ UNCHANGED <<c_base, c_count, c_current, c_attempt, c_result>>

\* lines 53-60 in thread t
conc_advance(t) ==
    /\ c_pc[t] = "advance"
    /\ c_current' = [c_current EXCEPT ![t] = @ + 1]
    /\ IF (c_current[t] + 1) + c_count - 1 > MaxPortNumber
       THEN ConcReturns(t, "RuntimeError", <<>>)
       ELSE c_pc' = [c_pc EXCEPT ![t] = "attempt"] /\ UNCHANGED c_result
    /\ UNCHANGED <<c_base, c_count, c_attempt, c_i, c_ports, c_held>>

\* the orchestrator, the registry and the single search take no part
ConcOnly ==
    UNCHANGED <<orchVars, regVars, regHist, findVars, detVars, chkVars>>

\* thread.start() for each thread: all of them are in the call
ConcInit ==
    /\ OrchIdle /\ RegIdle /\ FindIdle /\ DetIdle /\ ChkIdle
    /\ c_base \in ConcBases /\ c_count \in ConcCounts
    /\ c_pc = [t \in ConcThreads |-> "entry"]
    /\ c_current = [t \in ConcThreads |-> 0]
    /\ c_attempt = [t \in ConcThreads |-> 0]
    /\ c_i = [t \in ConcThreads |-> 0]
    /\ c_ports = [t \in ConcThreads |-> <<>>]
    /\ c_held = [t \in ConcThreads |-> NoSocket]
    /\ c_result = [t \in ConcThreads |-> NoResult]

ConcNext ==
    \/ (\E t \in ConcThreads : conc_entry(t)) /\ ConcOnly
    \/ (\E t \in ConcThreads : conc_attempt(t)) /\ ConcOnly
    \/ (\E t \in ConcThreads : conc_bind(t)) /\ ConcOnly
    \/ (\E t \in ConcThreads : conc_close(t)) /\ ConcOnly
    \/ (\E t \in ConcThreads : conc_advance(t)) /\ ConcOnly

ConcSpec == ConcInit /\ [][ConcNext]_vars

\* ================================== detect_runtime as a program, per probe
\* _check_command_available: True unless the command times out or is missing
check_command_available(c) == d_bin[c] \in {"zero", "nonzero"}

\* lines 49-51: the runtime under check becomes self.runtime
DetSelect(e) == d_runtime' = e /\ d_pc' = "selected"

\* variant: any exit status of `--version` makes the engine available
det_check_runtime_any_exit ==
    /\ d_pc = "check" /\ d_k <= Len(RuntimePriority)
    /\ LET e == RuntimePriority[d_k]
       IN  /\ d_probed' = Append(d_probed, e)
           /\ IF d_bin[e] \in {"zero", "nonzero"}
              THEN /\ UNCHANGED d_k
                   /\ CASE e = "podman" ->
                             d_pc' = "podman_compose" /\ UNCHANGED d_runtime
                        [] e = "docker" ->
                             d_pc' = "docker_compose" /\ UNCHANGED d_runtime
                        [] OTHER -> DetSelect(e)
              ELSE /\ d_k' = d_k + 1
                   /\ UNCHANGED <<d_pc, d_runtime>>
    /\ UNCHANGED <<d_bin, d_compose, d_start, d_cleanup>>

\* lines 47-48, 55-61 and 78-80: `<engine> --version` of the next runtime of
\* the list; exit status 0 makes it available, anything else moves on
det_check_runtime ==
    /\ d_pc = "check" /\ d_k <= Len(RuntimePriority)
    /\ LET e == RuntimePriority[d_k]
       IN  /\ d_probed' = Append(d_probed, e)
           /\ IF d_bin[e] = "zero"
              THEN /\ UNCHANGED d_k
                   /\ CASE e = "podman" ->
                             d_pc' = "podman_compose" /\ UNCHANGED d_runtime
                        [] e = "docker" ->
                             d_pc' = "docker_compose" /\ UNCHANGED d_runtime
                        [] OTHER -> DetSelect(e)
              ELSE /\ d_k' = d_k + 1
                   /\ UNCHANGED <<d_pc, d_runtime>>
    /\ UNCHANGED <<d_bin, d_compose, d_start, d_cleanup>>

\* lines 64-69: podman, first operand of the `or`: podman-compose --version
det_podman_compose ==
    /\ d_pc = "podman_compose"
    /\ d_probed' = Append(d_probed, "podman-compose")
    /\ IF check_command_available("podman-compose")
       THEN DetSelect("podman")
       ELSE d_pc' = "podman_compose2" /\ UNCHANGED d_runtime
    /\ UNCHANGED <<d_bin, d_k, d_compose, d_start, d_cleanup>>

\* lines 69-72: podman, second operand: docker-compose --version; without
\* either helper compose_command becomes "podman"
det_podman_compose2 ==
    /\ d_pc = "podman_compose2"
    /\ d_probed' = Append(d_probed, "docker-compose")
    /\ d_compose' = IF check_command_available("docker-compose")
                    THEN d_compose
                    ELSE [d_compose EXCEPT !["podman"] = "podman"]
    /\ DetSelect("podman")
    /\ UNCHANGED <<d_bin, d_k, d_start, d_cleanup>>

\* lines 73-75: docker: without docker-compose the built-in subcommand
det_docker_compose ==
    /\ d_pc = "docker_compose"
    /\ d_probed' = Append(d_probed, "docker-compose")
    /\ d_compose' = IF check_command_available("docker-compose")
                    THEN d_compose
                    ELSE [d_compose EXCEPT !["docker"] = "docker compose"]
    /\ DetSelect("docker")
    /\ UNCHANGED <<d_bin, d_k, d_start, d_cleanup>>

\* line 53: the list is exhausted
det_no_runtime ==
    /\ d_pc = "check" /\ d_k > Len(RuntimePriority)
    /\ d_pc' = "RuntimeError"
    /\ UNCHANGED <<d_bin, d_k, d_probed, d_compose, d_runtime, d_start,
                   d_cleanup>>

\* lines 155-158, 215 and 296-303: start_containers takes the pod path for
\* podman and runs `<compose_command> -f <file> up --build -d` otherwise
det_start_containers ==
    /\ d_pc = "selected"
    /\ d_start' = IF d_runtime = "podman"
                  THEN [path |-> "native", cmd |-> "podman"]
                  ELSE [path |-> "compose", cmd |-> d_compose[d_runtime]]
    /\ d_pc' = "started"
    /\ UNCHANGED <<d_bin, d_k, d_probed, d_compose, d_runtime, d_cleanup>>

\* lines 462-481: cleanup stops and removes containers and pod for podman and
\* runs `<compose_command> -f <file> down -v` otherwise
det_cleanup ==
    /\ d_pc = "started"
    /\ d_cleanup' = IF d_runtime = "podman"
                    THEN [path |-> "native", cmd |-> "podman"]
                    ELSE [path |-> "compose", cmd |-> d_compose[d_runtime]]
    /\ d_pc' = "cleaned"
    /\ UNCHANGED <<d_bin, d_k, d_probed, d_compose, d_runtime, d_start>>

\* the other components take no part
DetOnly ==
    UNCHANGED <<orchVars, regVars, regHist, findVars, concVars, chkVars>>

DetInit ==
    /\ OrchIdle /\ RegIdle /\ FindIdle /\ ConcIdle /\ ChkIdle
    /\ d_bin \in [{"podman", "docker", "nerdctl", "buildah"}
                      \cup ComposeHelpers -> VersionOutcomes]
    /\ d_pc = "check" /\ d_k = 1 /\ d_probed = <<>>
    /\ d_compose = DefaultCompose /\ d_runtime = "none"
    /\ d_start = NoPath /\ d_cleanup = NoPath

DetNext ==
    \/ det_check_runtime /\ DetOnly
    \/ det_podman_compose /\ DetOnly
    \/ det_podman_compose2 /\ DetOnly
    \/ det_docker_compose /\ DetOnly
    \/ det_no_runtime /\ DetOnly
    \/ det_start_containers /\ DetOnly
    \/ det_cleanup /\ DetOnly

DetSpec == DetInit /\ [][DetNext]_vars

\* ================================= check_sequential_port_block as a program
\* arguments and busy ports the calls are made with: ports of the longest
\* range, the port below it and the port above it
ChkBases == {BasePort, MaxPortNumber - 1, MaxPortNumber + 2}
ChkCounts == -1 .. Len(Services)
ChkBusySets(base) ==
    SUBSET (((base - 1) .. (base + Len(Services))) \cap (0 .. MaxPortNumber))

ChkReturns(r) == k_result' = r /\ k_pc' = "done"

\* what a run of an attribution tool can do without ending the attribution:
\* FileNotFoundError, TimeoutExpired, a non-zero exit, output without a usable
\* line for the port
ToolPasses == {"missing", "timeout", "nonzero", "unparseable"}
\* the runs of one attribution; "none": the tool is not run.  On linux/darwin
\* first lsof, second netstat, third ss; on win first netstat, second
\* tasklist; elsewhere no tool.  A tool is run when the ones before it passed;
\* it can name the owner ("found", for netstat also "bare": a column without
\* a slash) or raise another exception ("raises")
ToolRuns ==
    [platform : {"linux"}, first : {"found", "raises"}, second : {"none"},
     third : {"none"}]
    \cup [platform : {"linux"}, first : ToolPasses,
          second : {"found", "bare", "raises"}, third : {"none"}]
    \cup [platform : {"linux"}, first : ToolPasses, second : ToolPasses,
          third : ToolPasses \cup {"found", "raises"}]
    \cup [platform : {"win"}, first : ToolPasses \cup {"raises"},
          second : {"none"}, third : {"none"}]
    \cup [platform : {"win"}, first : {"found"},
          second : ToolPasses \cup {"found", "raises"}, third : {"none"}]
    \cup [platform : {"other"}, first : {"none"}, second : {"none"},
          third : {"none"}]

\* variant: None when no tool names the owner, as the annotation allows
get_process_using_port_or_none(t) ==
    CASE t.platform = "linux" ->
           IF t.first = "found" THEN "process python (PID 1)"
           ELSE IF t.first = "raises" THEN "None"
           ELSE IF t.second = "found" THEN "process python (PID 1)"
           ELSE IF t.second = "bare" THEN "process python"
           ELSE IF t.second = "raises" THEN "None"
           ELSE IF t.third = "found" THEN "process python (PID 1)"
           ELSE "None"
      [] t.platform = "win" ->
           IF t.first = "found"
           THEN IF t.second = "found" THEN "process python (PID 1)"
                ELSE IF t.second = "raises" THEN "None"
                ELSE "process PID 1"
           ELSE "None"
      [] OTHER -> "None"

\* _get_process_using_port: the first tool that names the owner decides; an
\* exception other than TimeoutExpired and FileNotFoundError ends the
\* attribution in the outer `except Exception`
get_process_using_port(t) ==
    CASE t.platform = "linux" ->
           IF t.first = "found" THEN "process python (PID 1)"
           ELSE IF t.first = "raises" THEN "unknown process"
           ELSE IF t.second = "found" THEN "process python (PID 1)"
           ELSE IF t.second = "bare" THEN "process python"
           ELSE IF t.second = "raises" THEN "unknown process"
           ELSE IF t.third = "found" THEN "process python (PID 1)"
           ELSE "unknown process"
      [] t.platform = "win" ->
           IF t.first = "found"
           THEN IF t.second = "found" THEN "process python (PID 1)"
                ELSE IF t.second = "raises" THEN "unknown process"
                ELSE "process PID 1"
           ELSE "unknown process"
      [] OTHER -> "unknown process"

\* variant: the range is validated before the count
chk_entry_range_first ==
    /\ k_pc = "entry"
    /\ LET end_port == k_base + k_count - 1
       IN  IF end_port > MaxPortNumber
           THEN /\ ChkReturns([available |-> FALSE,
                               requested_range |-> <<k_base, end_port>>,
                               busy_ports |-> <<>>,
                               error_message |->
                                  <<"Port range", ToString(k_base), "-",
                                    ToString(end_port),
                                    "exceeds maximum port number",
                                    ToString(MaxPortNumber)>>])
                /\ UNCHANGED k_i
           ELSE IF k_count < 1
           THEN /\ ChkReturns([available |-> FALSE,
                               requested_range |-> <<k_base, end_port>>,
                               busy_ports |-> <<>>,
                               error_message |-> <<"Count must be at least 1">>])
                /\ UNCHANGED k_i
           ELSE /\ k_pc' = "scan" /\ k_i' = 0
                /\ UNCHANGED k_result
    /\ UNCHANGED <<k_base, k_count, k_busy, k_probed, k_busy_ports, k_tools>>

\* variant: the range is not validated
chk_entry_no_range_check ==
    /\ k_pc = "entry"
    /\ LET end_port == k_base + k_count - 1
       IN  IF k_count < 1
           THEN /\ ChkReturns([available |-> FALSE,
                               requested_range |-> <<k_base, end_port>>,
                               busy_ports |-> <<>>,
                               error_message |-> <<"Count must be at least 1">>])
                /\ UNCHANGED k_i
           ELSE /\ k_pc' = "scan" /\ k_i' = 0
                /\ UNCHANGED k_result
    /\ UNCHANGED <<k_base, k_count, k_busy, k_probed, k_busy_ports, k_tools>>

\* lines 95-115: the two validations, then the scan starts
chk_entry ==
    /\ k_pc = "entry"
    /\ LET end_port == k_base + k_count - 1
       IN  IF k_count < 1
           THEN /\ ChkReturns([available |-> FALSE,
                               requested_range |-> <<k_base, end_port>>,
                               busy_ports |-> <<>>,
                               error_message |-> <<"Count must be at least 1">>])
                /\ UNCHANGED k_i
           ELSE IF end_port > MaxPortNumber
           THEN /\ ChkReturns([available |-> FALSE,
                               requested_range |-> <<k_base, end_port>>,
                               busy_ports |-> <<>>,
                               error_message |->
                                  <<"Port range", ToString(k_base), "-",
                                    ToString(end_port),
                                    "exceeds maximum port number",
                                    ToString(MaxPortNumber)>>])
                /\ UNCHANGED k_i
           ELSE /\ k_pc' = "scan" /\ k_i' = 0
                /\ UNCHANGED k_result
    /\ UNCHANGED <<k_base, k_count, k_busy, k_probed, k_busy_ports, k_tools>>

\* variant: the scan ends at the first busy port, as the finder's scan does
chk_probe_until_busy ==
    /\ k_pc = "scan" /\ k_i < k_count
    /\ LET port == k_base + k_i
       IN  /\ k_probed' = Append(k_probed, port)
           /\ IF is_port_available(port, k_busy)
              THEN /\ UNCHANGED <<k_busy_ports, k_tools>>
                   /\ k_i' = k_i + 1
              ELSE /\ \E t \in ToolRuns :
                        /\ k_tools' = t
                        /\ k_busy_ports' = Append(k_busy_ports,
                              [port |-> port, available |-> FALSE,
                               process_info |-> get_process_using_port(t)])
                   /\ k_i' = k_count
    /\ UNCHANGED <<k_base, k_count, k_busy, k_pc, k_result>>

\* lines 117-125: one pass of the loop: the port is probed and, when busy,
\* attributed to a process and appended to busy_ports
chk_probe ==
    /\ k_pc = "scan" /\ k_i < k_count
    /\ LET port == k_base + k_i
       IN  /\ k_probed' = Append(k_probed, port)
           /\ IF is_port_available(port, k_busy)
              THEN UNCHANGED <<k_busy_ports, k_tools>>
              ELSE \E t \in ToolRuns :
                      /\ k_tools' = t
                      /\ k_busy_ports' = Append(k_busy_ports,
                            [port |-> port, available |-> FALSE,
                             process_info |-> get_process_using_port(t)])
           /\ k_i' = k_i + 1
    /\ UNCHANGED <<k_base, k_count, k_busy, k_pc, k_result>>

\* lines 127-160: the result is built from busy_ports
chk_return ==
    /\ k_pc = "scan" /\ k_i >= k_count
    /\ ChkReturns([available |-> k_busy_ports = <<>>,
                   requested_range |-> <<k_base, k_base + k_count - 1>>,
                   busy_ports |-> k_busy_ports,
                   error_message |->
                      IF k_busy_ports = <<>> THEN <<>>
                      ELSE BusyMessage(k_base, k_count, k_busy_ports)])
    /\ UNCHANGED <<k_base, k_count, k_busy, k_i, k_probed, k_busy_ports,
                   k_tools>>

\* the other components take no part
ChkOnly ==
    UNCHANGED <<orchVars, regVars, regHist, findVars, concVars, detVars>>

ChkInit ==
    /\ OrchIdle /\ RegIdle /\ FindIdle /\ ConcIdle /\ DetIdle
    /\ k_base \in ChkBases /\ k_count \in ChkCounts
    /\ k_busy \in ChkBusySets(k_base)
    /\ k_pc = "entry" /\ k_i = 0 /\ k_probed = <<>> /\ k_busy_ports = <<>>
    /\ k_tools = NoTools
    /\ k_result = NoCheck

ChkNext ==
    \/ chk_entry /\ ChkOnly
    \/ chk_probe /\ ChkOnly
    \/ chk_return /\ ChkOnly

ChkSpec == ChkInit /\ [][ChkNext]_vars

\* =================================================================== claims
StartPcs == {"ps", "ce_pg", "ce_mongo", "ex_stop", "ex_rm", "ex_pod_rm",
             "pod_create", "run_pg", "run_mongo", "compose_up"}

\* engine commands that create or (re)build something
CreationCmds == {<<"pod", "create">>, <<"compose", "up", "--build">>}
                \cup {<<"run", c>> : c \in Containers}

\* engine commands that stop or remove something
RemovalCmds == {<<"pod", "rm">>, <<"compose", "down", "-v">>}
               \cup {<<"stop", c>> : c \in Containers}
               \cup {<<"rm", c>> : c \in Containers}

\* C1: every exit of the process from run_full_test_cycle (action "test") has
\* passed through exactly one invocation of cleanup(), whatever ended the
\* cycle: failed detection, failed start, health timeout, the test result or
\* a signal.
C1_CleanupExactlyOnce ==
    (action = "test" /\ pc = "exit") => cleanupCalls = 1

\* C1 witness: a cycle ended by a signal has exited after one cleanup call
C1_Witness ==
    action = "test" /\ pc = "exit" /\ sigSeen /\ cleanupCalls = 1

\* C2: a process that received SIGINT/SIGTERM after its session had started a
\* pod or container exits only after a cleanup() call has run to completion.
C2_SignalCleanupCompletes ==
    (pc = "exit" /\ sigAfterStart) => cleanupDone

\* C3: in the test cycle, once a signal has been delivered the only steps
\* still executed are those of cleanup and the exit: no start, health-poll or
\* test-runner step follows.
C3_SignalStraightToCleanup ==
    (action = "test" /\ sigSeen) => pc \in CleanupPcs \cup {"exit"}

\* C4: a process whose start_containers failed after the session had created
\* a pod or a container has called cleanup() by the time it exits, for the
\* "start" action as for the test cycle.
C4_FailedStartCleansUp ==
    (pc = "exit" /\ startRes = "False" /\ SessionCreated) => cleanupCalls >= 1

\* C5: a start_containers call entered while test-postgres and test-mongo were
\* running and healthy has, when it returns, issued no command that stops,
\* removes, creates or rebuilds a container or pod.
C5_NoDestructiveRestart ==
    (pc = "start_ret" /\ preHealthy)
        => startCmds \cap (CreationCmds \cup RemovalCmds) = {}

\* C6: a start_containers call on the native path, entered while the required
\* containers were running and healthy and publishing the ports 8091 and 8092
\* an earlier start gave them (no other process holding a port of the block),
\* returns True without a creation step.
C6_ShortCircuitToHealthy ==
    (/\ pc = "start_ret" /\ preHealthy /\ runtime = "podman"
     /\ extBusy = {} /\ preBusy = {8091, 8092})
        => (startRes = "True" /\ startCmds \cap CreationCmds = {})

\* C7: after _allocate_ports, no search has been made; if the block was free
\* at the pre-flight check the session ports are exactly app 8090, postgres
\* 8091, mongo 8092; if a port was busy the call has raised an error naming
\* every busy port, self.ports is what it was, and start_containers has
\* returned False without an engine command.
C7_PreferredBlockOrNothing ==
    (pc \in StartPcs \cup {"start_ret"}) =>
        /\ ~fallback
        /\ preBusy = {} =>
              ports = [s \in {"app", "postgres", "mongo"} |->
                         CASE s = "app" -> 8090
                           [] s = "postgres" -> 8091
                           [] s = "mongo" -> 8092]
        /\ preBusy # {} =>
              /\ pc = "start_ret" /\ startRes = "False"
              /\ ports = portsPre
              /\ startCmds = {}
              /\ \A p \in preBusy : NamesPort(allocErr, p)

\* C7 witness: start_containers has returned False on two busy ports
C7_Witness ==
    pc = "start_ret" /\ preBusy = {8090, 8092} /\ startRes = "False"

\* C8: the test runner has been invoked only after start_containers returned
\* True and a poll saw every health check pass; after a health timeout the
\* tests have not run and the cycle is in cleanup or has exited.
C8_TestsOnlyWhenHealthy ==
    /\ testsRun => (startRes = "True" /\ pollPassed)
    /\ timedOut => (~testsRun /\ (action = "test" => pc \in CleanupPcs \cup {"exit"}))

\* C8 witness: the tests have run in a cycle that needed a second poll
C8_Witness == testsRun /\ pollPassed /\ polls = 2

\* C9: when cleanup() returns, stop and rm have been issued for every
\* container the session started and pod rm for its pod (native path), or
\* compose down -v has been issued (compose path).
C9_CleanupCoversSession ==
    pc = "cl_ret" =>
        /\ runtime = "podman" =>
              /\ \A c \in sessStarted :
                    {<<"stop", c>>, <<"rm", c>>} \subseteq cleanupCmds
              /\ sessPod => <<"pod", "rm">> \in cleanupCmds
        /\ (runtime # "podman" /\ sessUp) =>
              <<"compose", "down", "-v">> \in cleanupCmds

RegMutators == {"assign_port", "release_port", "reset_assignments"}

\* thread t of process p takes a step
Moves(p, t) == tpc'[p][t] # tpc[p][t]

\* C11: assign_port for a service that already has an assignment returns that
\* assignment's port, whatever purpose is passed, and leaves the cursor, the
\* set of entries, the entry's port, purpose and assigned_at, and the file
\* as they were.
C11_AssignIdempotent ==
    [][\A p \in Procs, t \in Threads :
         (/\ tpc[p][t] = "assign_check" /\ Moves(p, t)
          /\ call[p][t].service_name \in DOMAIN assigned_ports[p])
         => /\ tpc'[p][t] = "done"
            /\ ret'[p][t] =
                 RetInt(assigned_ports[p][call[p][t].service_name].port)
            /\ current_port'[p] = current_port[p]
            /\ assigned_ports'[p] = assigned_ports[p]
            /\ port_file' = port_file]_vars

\* C11 witness: a second assign_port with another purpose has returned the
\* port assigned before
C11_Witness ==
    \E t \in Threads :
        /\ tpc[1][t] = "done" /\ call[1][t].op = "assign_port"
        /\ assigned_port[1][t] = 0
        /\ call[1][t].service_name \in DOMAIN assigned_ports[1]
        /\ LET e == assigned_ports[1][call[1][t].service_name]
           IN  /\ e.purpose # call[1][t].purpose
               /\ e.assigned_at < clock
               /\ ret[1][t] = RetInt(e.port)

\* C12: whenever no mutating call is inside its locked section, the cursor
\* is at least port + 1 for every assignment of the registry, whether the
\* registry started from defaults or from a file a registry wrote.
C12_CursorAboveAssignments ==
    \A p \in Procs :
        (alive[p] /\ lock[p] = 0) =>
            \A s \in DOMAIN assigned_ports[p] :
                current_port[p] >= assigned_ports[p][s].port + 1

\* C12 witness: a registry constructed on a file whose cursor was below its
\* base port holds an assignment made since, at base_port
C12_Witness ==
    /\ alive[1] /\ lock[1] = 0
    /\ loaded[1].file.state = "json"
    /\ loaded[1].file.next_port < base_port[1]
    /\ \E s \in DOMAIN assigned_ports[1] :
          assigned_ports[1][s].port = base_port[1]

\* C13: release_port removes the service's entry and no other, returns True
\* iff there was one and leaves the cursor alone; a first-time assign hands
\* out a port greater than every port loaded or handed out before (since the
\* construction or the last reset), so a released service that is assigned
\* again gets a new port, and no two services hold the same port.
C13_ReleaseKeepsCursor ==
    /\ [][\A p \in Procs, t \in Threads :
            LET s == call[p][t].service_name
                m == assigned_ports[p]
            IN  /\ (tpc[p][t] = "release_check" /\ Moves(p, t)) =>
                      /\ current_port'[p] = current_port[p]
                      /\ assigned_ports'[p] = [x \in DOMAIN m \ {s} |-> m[x]]
                      /\ (tpc'[p][t] = "done") = (s \notin DOMAIN m)
                      /\ s \notin DOMAIN m => ret'[p][t] = RetBool(FALSE)
                /\ (tpc[p][t] = "release_ret" /\ Moves(p, t)) =>
                      /\ ret'[p][t] = RetBool(TRUE)
                      /\ current_port'[p] = current_port[p]
                      /\ assigned_ports'[p] = m
                /\ (tpc[p][t] = "assign_ret" /\ Moves(p, t)) =>
                      \A x \in issued[p] : ret'[p][t].val > x[2]]_vars
    /\ [](\A p \in Procs : \A s1, s2 \in DOMAIN assigned_ports[p] :
            assigned_ports[p][s1].port = assigned_ports[p][s2].port
                => s1 = s2)

\* C13 witness: a service released and assigned again holds a port above the
\* one it had
C13_Witness ==
    \E s \in DOMAIN assigned_ports[1] :
        /\ lock[1] = 0
        /\ \E x \in issued[1] :
              x[1] = s /\ x[2] < assigned_ports[1][s].port

\* a step of process p that is line 113 of reset_assignments
IsRewind(p) ==
    \E t \in Threads : tpc[p][t] = "reset_rewind" /\ Moves(p, t)

\* C14 as stated: no operation of a live registry lowers the cursor.
C14_CursorNeverLowered ==
    [][\A p \in Procs :
         (alive[p] /\ alive'[p]) => current_port'[p] >= current_port[p]]_vars

\* C14 amended: assign_port, the readers and release_port never lower the
\* cursor; reset_assignments sets it to base_port; between two resets no
\* port is handed out twice.
C14_CursorLoweredOnlyByReset ==
    [][\A p \in Procs :
         (alive[p] /\ alive'[p]) =>
            /\ ~IsRewind(p) => current_port'[p] >= current_port[p]
            /\ IsRewind(p) => current_port'[p] = base_port[p]
            /\ \A t \in Threads :
                  (tpc[p][t] = "assign_ret" /\ Moves(p, t)) =>
                      \A x \in issued[p] : ret'[p][t].val # x[2]]_vars

\* C14 witness: a reset has taken the cursor back from above base_port
C14_Witness ==
    \E t \in Threads :
        /\ tpc[1][t] = "reset_save"
        /\ saved[1].state = "json"
        /\ saved[1].next_port > base_port[1]
        /\ current_port[1] = base_port[1]

\* C15: every assigned port of a live registry is at least its base_port.
C15_PortsAtLeastBase ==
    \A p \in Procs :
        alive[p] =>
            \A s \in DOMAIN assigned_ports[p] :
                assigned_ports[p][s].port >= base_port[p]

\* C16: the calls of the threads of one process have the results, and leave
\* the state, of the same calls run one after the other in the order in
\* which they took the lock: in particular first-time assigns of different
\* services get different, consecutive ports and assigns of one service get
\* the same port.
C16_Linearizable ==
    \A p \in Procs :
        /\ \A t \in Threads :
              (tpc[p][t] = "done" /\ call[p][t].op \in RegMutators)
                  => ret[p][t] = linRet[p][t]
        /\ (alive[p] /\ lock[p] = 0) =>
              /\ current_port[p] = lin[p].next
              /\ get_service_ports(assigned_ports[p]) = lin[p].ports

\* C16 witness: two overlapping first-time assigns for different services
\* have returned consecutive ports
C16_Witness ==
    /\ \A t \in Threads : tpc[1][t] = "done" /\ call[1][t].op = "assign_port"
    /\ call[1][1].service_name # call[1][2].service_name
    /\ assigned_port[1][1] # 0 /\ assigned_port[1][2] # 0
    /\ assigned_ports[1][call[1][1].service_name].assigned_at
         = assigned_ports[1][call[1][2].service_name].assigned_at
    /\ ret[1][2].val - ret[1][1].val \in {1, -1}
    /\ current_port[1] = loaded[1].cursor + 2

\* the ports process p has handed out itself since its construction
OwnPorts(p) ==
    {x[2] : x \in {y \in issued[p] :
                     \/ y[1] \notin DOMAIN loaded[p].file.assignments
                     \/ loaded[p].file.assignments[y[1]].port # y[2]}}

\* C17: the lock is one per instance and nothing excludes two processes on
\* one file: an instance takes the port from the cursor it loaded, whatever
\* the file holds by then, and a save replaces the file by the saver's image.
\* So two instances constructed on the same file content hand out the same
\* first port, also to different services, and the later save drops what the
\* other instance saved.
C17_NoCrossProcessExclusion ==
    /\ \A p \in Procs :
          (alive[p] /\ OwnPorts(p) # {}) => loaded[p].cursor \in OwnPorts(p)
    /\ \A p, q \in Procs :
          (/\ alive[p] /\ alive[q] /\ loaded[p].cursor = loaded[q].cursor
           /\ OwnPorts(p) # {} /\ OwnPorts(q) # {})
          => OwnPorts(p) \cap OwnPorts(q) # {}
    /\ port_file.state = "json" => \E p \in Procs : port_file = saved[p]

\* C17 witness: two services hold the same port, one in each process, both
\* processes have saved, and the file lacks the assignment the first saved
C17_Witness ==
    \E s1, s2 \in RegServices :
        /\ s1 # s2 /\ alive[1] /\ alive[2]
        /\ s1 \in DOMAIN assigned_ports[1] /\ s2 \in DOMAIN assigned_ports[2]
        /\ assigned_ports[1][s1].port = assigned_ports[2][s2].port
        /\ s1 \in DOMAIN saved[1].assignments
        /\ saved[2].state = "json"
        /\ s1 \notin DOMAIN port_file.assignments

\* C18: right after the save of a mutating call, and whenever no mutating
\* call is in its locked section after one has saved, the file holds the
\* manager's base_port, cursor and assignments, and loading it with the same
\* base_port gives the same assignments and the same cursor.
C18_FileMirrorsMemory ==
    \A p \in Procs :
        (/\ alive[p]
         /\ \/ \E t \in Threads :
                  tpc[p][t] \in {"assign_ret", "release_ret", "reset_ret"}
            \/ lock[p] = 0 /\ saved[p].state = "json")
        => /\ port_file = [state |-> "json", base_port |-> base_port[p],
                           next_port |-> current_port[p],
                           assignments |-> assigned_ports[p]]
           /\ LoadResult(port_file, base_port[p]) =
                 [assigned_ports |-> assigned_ports[p],
                  current_port |-> current_port[p]]

\* C18 witness: a release has just saved a registry that still holds the
\* other service
C18_Witness ==
    \E t \in Threads :
        /\ tpc[1][t] = "release_ret"
        /\ assigned_ports[1] # NoAssignments
        /\ port_file.assignments = assigned_ports[1]
        /\ port_file.next_port = current_port[1]

\* C19: the construction leaves the cursor at max(persisted next_port,
\* base_port) and the assignments as persisted; with a missing or
\* unparseable file it leaves no assignments and the cursor at base_port.
C19_LoadClampsUp ==
    [][\A p \in Procs :
         (~alive[p] /\ alive'[p]) =>
            IF port_file.state = "json"
            THEN /\ current_port'[p] =
                      (IF port_file.next_port > base_port'[p]
                       THEN port_file.next_port ELSE base_port'[p])
                 /\ assigned_ports'[p] = port_file.assignments
            ELSE /\ current_port'[p] = base_port'[p]
                 /\ assigned_ports'[p] = NoAssignments]_vars

\* C19 witness: a manager constructed on a file whose cursor is below its
\* base_port
C19_Witness ==
    /\ alive[1] /\ loaded[1].file.state = "json"
    /\ loaded[1].file.next_port < base_port[1]
    /\ loaded[1].cursor = base_port[1]

\* a manager constructed on an unparseable file, and one on a cursor above
\* its base_port
C19_WitnessCorrupt ==
    alive[1] /\ loaded[1].file.state = "corrupt"
C19_WitnessAbove ==
    /\ alive[1] /\ loaded[1].file.state = "json"
    /\ loaded[1].file.next_port > base_port[1]
    /\ loaded[1].cursor = loaded[1].file.next_port

\* ------------------------------------------------- claims on the port finder
\* C20: whenever find_sequential_ports returns, its result has length count,
\* is p, p+1, ..., p+count-1 for some p >= base, and each of its ports was
\* probed during the call and is not busy.
C20_ReturnsFreeWindow ==
    f_result.kind = "list" =>
        LET r == f_result.ports
        IN  /\ Len(r) = f_count
            /\ r[1] >= f_base
            /\ \A i \in 1..Len(r) :
                  /\ r[i] = r[1] + i - 1
                  /\ r[i] \notin f_busy
                  /\ \E k \in 1..Len(f_probed) : f_probed[k] = r[i]

\* C20 witness: a window of three ports returned above a base whose own
\* window had a busy port
C20_Witness ==
    /\ f_result.kind = "list" /\ f_count = 3
    /\ f_busy \cap (f_base .. (f_base + 2)) # {}
    /\ f_result.ports[1] > f_base

\* a window of count ports starting at p with no busy port in it
FreeWindow(p, count, busy) ==
    \A i \in 0 .. (count - 1) : (p + i) \notin busy

\* C21: for a fixed set of busy ports the returned window starts at the
\* smallest p >= base whose count ports are all free: no free window starts
\* between base and the returned start, and when the window at base holds a
\* busy port the returned start is above base and the returned window holds
\* none of the busy ports of the window at base.
C21_SmallestFreeWindow ==
    f_result.kind = "list" =>
        LET start == f_result.ports[1]
            returned == {f_result.ports[i] : i \in 1..Len(f_result.ports)}
        IN  /\ start >= f_base
            /\ FreeWindow(start, f_count, f_busy)
            /\ \A p \in f_base .. (start - 1) :
                  ~FreeWindow(p, f_count, f_busy)
            /\ ~FreeWindow(f_base, f_count, f_busy) =>
                  /\ start > f_base
                  /\ returned \cap f_busy = {}

\* C21 witness: the window at base and the one after it both hold a busy
\* port, and the search returned a window two or more above base
C21_Witness ==
    /\ f_result.kind = "list" /\ f_count >= 2
    /\ ~FreeWindow(f_base, f_count, f_busy)
    /\ ~FreeWindow(f_base + 1, f_count, f_busy)
    /\ f_result.ports[1] >= f_base + 2
    /\ f_attempt >= 3

\* C22: a call with count >= 1 that returns no window fails with the
\* RuntimeError of line 60 and with no other exception, and no returned port
\* is above 65535.
C22_FailsOnlyWithRuntimeError ==
    (f_pc = "done" /\ f_count >= 1) =>
        /\ f_result.kind \in {"list", "RuntimeError"}
        /\ \A i \in 1..Len(f_result.ports) :
              f_result.ports[i] <= MaxPortNumber

\* C23: with count < 1 the call fails with ValueError as its first step,
\* before any port is probed, whatever the base; no call returns an empty
\* list.
C23_InvalidCountFailsFirst ==
    /\ f_count < 1 =>
          /\ f_pc \in {"entry", "done"}
          /\ f_probed = <<>>
          /\ f_pc = "done" => f_result.kind = "ValueError"
    /\ f_result.kind = "list" => f_result.ports # <<>>

\* C23 witness: a call with a negative count has failed with ValueError
\* although the window at its base was free
C23_Witness ==
    /\ f_count < 0 /\ f_pc = "done"
    /\ f_result.kind = "ValueError"
    /\ f_busy = {}

\* ------------------------------------------------- claims on the port probe
\* C25: every probe returns a boolean and none raises, whatever integer it is
\* given: a bind that fails, also on a number outside 0..65535, yields false.
C25_ProbeNeverRaises ==
    \A k \in 1..Len(f_probed) :
        bind(f_probed[k], f_busy) \in {"True", "False"}

\* ------------------------------------- claims on concurrent port searches
\* C24: when several threads call find_sequential_ports with the same base
\* and count and no other process holds a port, every call returns a list of
\* exactly count sequential ports and none raises.
C24_ConcurrentCallsAllReturn ==
    \A t \in ConcThreads :
        c_pc[t] = "done" =>
            /\ c_result[t].kind = "list"
            /\ Len(c_result[t].ports) = c_count
            /\ \A i \in 1..Len(c_result[t].ports) :
                  c_result[t].ports[i] = c_result[t].ports[1] + i - 1

\* ---------------------------------------------- claims on runtime detection
\* position of an engine in the priority list
PriorityOf(e) == CHOOSE i \in 1..Len(RuntimePriority) : RuntimePriority[i] = e

\* the engines whose `--version` was run so far
EnginesProbed ==
    {d_probed[i] : i \in 1..Len(d_probed)} \ ComposeHelpers

\* C26: detect_runtime selects the first engine in the order podman, docker,
\* nerdctl, buildah whose `--version` exits 0 within the timeout (a timeout, a
\* missing binary and a non-zero exit leave it unavailable); engines after
\* the selected one are not probed; with no such engine it raises and no
\* runtime is selected.
C26_FirstAvailableEngine ==
    /\ d_runtime # "none" =>
          /\ d_bin[d_runtime] = "zero"
          /\ \A i \in 1..(PriorityOf(d_runtime) - 1) :
                d_bin[RuntimePriority[i]] # "zero"
          /\ EnginesProbed =
                {RuntimePriority[i] : i \in 1..PriorityOf(d_runtime)}
    /\ d_pc = "RuntimeError" =>
          /\ d_runtime = "none"
          /\ \A i \in 1..Len(RuntimePriority) :
                d_bin[RuntimePriority[i]] # "zero"
    /\ (\E i \in 1..Len(RuntimePriority) : d_bin[RuntimePriority[i]] = "zero")
          => d_pc # "RuntimeError"
    /\ \A i, j \in 1..Len(d_probed) :
          (i < j /\ d_probed[i] \notin ComposeHelpers
                 /\ d_probed[j] \notin ComposeHelpers)
             => PriorityOf(d_probed[i]) < PriorityOf(d_probed[j])

\* C26 witness: docker was selected after podman timed out, and nerdctl,
\* which would have answered, was not probed
C26_Witness ==
    /\ d_runtime = "docker"
    /\ d_bin["podman"] = "timeout" /\ d_bin["nerdctl"] = "zero"
    /\ EnginesProbed = {"podman", "docker"}

\* C26 witness of the failure: four engines probed, none answered, one of
\* them missing and one with a non-zero exit
C26_WitnessNone ==
    /\ d_pc = "RuntimeError" /\ d_runtime = "none"
    /\ Len(d_probed) = 4
    /\ d_bin["podman"] = "missing" /\ d_bin["docker"] = "nonzero"

\* C27: the selected engine is driven through its compose helper binary when
\* that is present and through its built-in compose subcommand otherwise; the
\* native pod path is taken only for podman and only when neither compose
\* helper is present; cleanup takes the path start took.
C27_NativeOnlyWithoutCompose ==
    /\ (d_start.path = "compose" /\ d_runtime = "docker") =>
          d_start.cmd = IF check_command_available("docker-compose")
                        THEN "docker-compose" ELSE "docker compose"
    /\ d_start.path = "native" =>
          /\ d_runtime = "podman"
          /\ \A h \in ComposeHelpers : ~check_command_available(h)
          /\ d_compose["podman"] = "podman"
    /\ d_cleanup.path # "none" => d_cleanup = d_start

\* ------------------------------------------- claims on the port block check
\* the busy ports of the requested range, ascending
RECURSIVE BusyInRange(_, _, _)
BusyInRange(base, count, busy) ==
    IF count < 1 THEN <<>>
    ELSE (IF base \in busy THEN <<base>> ELSE <<>>)
         \o BusyInRange(base + 1, count - 1, busy)

\* C28: for count >= 1 and base+count-1 <= 65535 the result has
\* requested_range = (base, base+count-1), busy_ports = the busy ports of that
\* range, each once and ascending (all of them, not only the first),
\* available = (busy_ports is empty) and an error_message that is null iff
\* available; no port outside the range is probed.
C28_ReportsBusyPortsOfRange ==
    (k_pc = "done" /\ k_count >= 1 /\ k_base + k_count - 1 <= MaxPortNumber) =>
        /\ k_result.requested_range = <<k_base, k_base + k_count - 1>>
        /\ [i \in 1..Len(k_result.busy_ports) |-> k_result.busy_ports[i].port]
              = BusyInRange(k_base, k_count, k_busy)
        /\ k_result.available = (k_result.busy_ports = <<>>)
        /\ (k_result.error_message = <<>>) = k_result.available
        /\ k_probed = [i \in 1..k_count |-> k_base + i - 1]

\* C28 witness: a range of three ports with its first and last port busy and
\* the port right above the range free
C28_Witness ==
    /\ k_pc = "done" /\ k_count = 3
    /\ k_busy = {k_base, k_base + 2}
    /\ Len(k_result.busy_ports) = 2
    /\ ~k_result.available

\* C28 witness: a free range next to busy ports below and above it
C28_WitnessFree ==
    /\ k_pc = "done" /\ k_count = 2
    /\ k_busy = {k_base - 1, k_base + 2}
    /\ k_result.available /\ k_result.error_message = <<>>

\* the message contains "<p> already in use (<info>)"
NamesPortWithInfo(msg, pi) ==
    \E j \in 1..(Len(msg) - 4) :
        /\ msg[j] = ToString(pi.port) /\ msg[j + 1] = "already in use"
        /\ msg[j + 2] = "(" /\ msg[j + 3] = pi.process_info
        /\ msg[j + 4] = ")"

\* C29: whenever the check reports busy ports, for every count >= 1, count = 1
\* included, the error_message contains for each busy port p the text
\* "<p> already in use" followed by " (<process_info of p>)".
C29_MessageNamesEveryBusyPort ==
    (k_pc = "done" /\ k_result.busy_ports # <<>>) =>
        \A i \in 1..Len(k_result.busy_ports) :
            NamesPortWithInfo(k_result.error_message, k_result.busy_ports[i])

C30_WitnessPlural ==
    /\ k_pc = "done" /\ k_count = 2
    /\ k_busy \cap {k_base, k_base + 1} = {k_base + 1}
    /\ k_result.error_message[1] = "Ports"

\* C31: with count < 1 the check returns, for every base and without probing
\* any port, available = false, requested_range = (base, base+count-1), no
\* busy_ports and the message that the count must be at least 1, also when
\* the range rule applies as well.
C31_InvalidCountResult ==
    (k_pc # "entry" /\ k_count < 1) =>
        /\ k_pc = "done" /\ k_probed = <<>>
        /\ k_result = [available |-> FALSE,
                       requested_range |-> <<k_base, k_base + k_count - 1>>,
                       busy_ports |-> <<>>,
                       error_message |-> <<"Count must be at least 1">>]

\* C31 witness: count 0 from a base whose range also ends above port 65535
C31_Witness ==
    /\ k_pc = "done" /\ k_count = 0
    /\ k_base + k_count - 1 > MaxPortNumber
    /\ HasToken(k_result.error_message, "Count must be at least 1")

\* C32: with count >= 1 and base+count-1 > 65535 the check returns, without
\* probing any port, available = false, requested_range = (base, base+count-1),
\* no busy_ports and the message that the range exceeds the maximum port
\* number.
C32_RangeBeyondMaximum ==
    (k_pc # "entry" /\ k_count >= 1
        /\ k_base + k_count - 1 > MaxPortNumber) =>
        /\ k_pc = "done" /\ k_probed = <<>>
        /\ ~k_result.available
        /\ k_result.requested_range = <<k_base, k_base + k_count - 1>>
        /\ k_result.busy_ports = <<>>
        /\ HasToken(k_result.error_message, "exceeds maximum port number")
        /\ HasToken(k_result.error_message, ToString(MaxPortNumber))

\* C32 witness: three ports from 65534, of which 65534 and 65535 are busy
C32_Witness ==
    /\ k_pc = "done" /\ k_count = 3 /\ k_base = MaxPortNumber - 1
    /\ k_busy = {MaxPortNumber - 1, MaxPortNumber}
    /\ k_result.requested_range = <<MaxPortNumber - 1, MaxPortNumber + 1>>

\* the descriptions _get_process_using_port builds: "unknown process" and
\* the f-strings that begin with "process "
MentionsProcess(info) ==
    info \in {"unknown process", "process python (PID 1)", "process python",
              "process PID 1"}

C34_ExitZeroIffAllSucceeded ==
    (action = "test" /\ pc = "exit") =>
        ((exitCode = 0) <=>
            /\ runtime # "none" /\ startRes = "True" /\ pollPassed
            /\ testsRun /\ success
            /\ ~sigSeen)

\* positions inside the loop of wait_for_containers
WaitPcs == {"w_pg", "w_mongo", "w_sleep"}

\* C35: wait_for_containers always terminates; it returns True at the first
\* poll in which both health checks pass and False once the timeout has
\* elapsed without such a poll; a health command that fails, times out or
\* raises counts as not ready and is retried only after the sleep.
C35_WaitTerminates ==
    /\ [][/\ (pc = "w_pg" /\ pc' = "w_mongo") => "test-postgres" \in envHealthy
          /\ (pc = "w_pg" /\ "test-postgres" \notin envHealthy
                /\ pc' # pc /\ pc' # "exit") =>
                pc' \in {"w_sleep", "cl_begin"}
          /\ (pc = "w_mongo" /\ pc' \notin WaitPcs /\ pc' # "exit"
                /\ pc' # "cl_begin") =>
                (pc' = "tests" /\ pollPassed' /\ "test-mongo" \in envHealthy)
          /\ (pc = "w_mongo" /\ "test-mongo" \notin envHealthy
                /\ pc' # pc /\ pc' # "exit") =>
                pc' \in {"w_sleep", "cl_begin"}
          /\ (pc \in WaitPcs /\ timedOut' /\ ~timedOut) =>
                (pc = "w_sleep" /\ ~pollPassed' /\ pc' \notin WaitPcs)
          /\ (pc = "w_sleep" /\ pc' # pc /\ pc' \in WaitPcs) => pc' = "w_pg"
         ]_vars
    /\ (pc \in WaitPcs) ~> (pc \notin WaitPcs)

\* C35 witness: the first poll failed, the second passed and the wait returned
\* True to the cycle
C35_Witness ==
    /\ action = "test" /\ pc = "tests" /\ polls = 2 /\ pollPassed
    /\ ~timedOut

\* C35 witness: the wait returned False after its polls
C35_WitnessTimeout ==
    /\ timedOut /\ ~pollPassed /\ polls = MaxPolls /\ pc \notin WaitPcs

\* ================================================ PortManager.export_env_vars
\* service names a caller may assign: those of the registry runs and one whose
\* variable name meets a fixed key
ExpServices == RegServices \cup {"base"}

\* the characters of a service name
NameChars(s) ==
    CASE s = "web-api" -> <<"w", "e", "b", "-", "a", "p", "i">>
      [] s = "web_api" -> <<"w", "e", "b", "_", "a", "p", "i">>
      [] s = "base" -> <<"b", "a", "s", "e">>

\* str.upper on the characters that occur
upper(cs) ==
    [k \in DOMAIN cs |->
        CASE cs[k] = "a" -> "A" [] cs[k] = "b" -> "B" [] cs[k] = "e" -> "E"
          [] cs[k] = "i" -> "I" [] cs[k] = "p" -> "P" [] cs[k] = "s" -> "S"
          [] cs[k] = "w" -> "W" [] OTHER -> cs[k]]

\* str.replace for one-character strings
replace(cs, old, new) ==
    [k \in DOMAIN cs |-> IF cs[k] = old THEN new ELSE cs[k]]

\* line 146: f"{service.upper().replace('-', '_')}_PORT"
EnvVarName(s) ==
    replace(upper(NameChars(s)), "-", "_") \o <<"_", "P", "O", "R", "T">>

BASE_PORT == <<"B", "A", "S", "E", "_", "P", "O", "R", "T">>
NEXT_PORT == <<"N", "E", "X", "T", "_", "P", "O", "R", "T">>

\* the services of a mapping in the order dict.items() yields them: the order
\* of insertion, which is the order of assignment
RECURSIVE ItemsOrder(_)
ItemsOrder(m) ==
    IF DOMAIN m = {} THEN <<>>
    ELSE LET s == CHOOSE x \in DOMAIN m :
                      \A y \in DOMAIN m : m[x].assigned_at <= m[y].assigned_at
         IN  <<s>> \o ItemsOrder([x \in DOMAIN m \ {s} |-> m[x]])

\* env_vars[key] = value
SetItem(d, key, value) ==
    [n \in DOMAIN d \cup {key} |-> IF n = key THEN value ELSE d[n]]

\* lines 144-147: the loop over self.assigned_ports.items()
RECURSIVE ExportLoop(_, _, _)
ExportLoop(d, m, order) ==
    IF order = <<>> THEN d
    ELSE ExportLoop(SetItem(d, EnvVarName(Head(order)),
                            ToString(m[Head(order)].port)),
                    m, Tail(order))

\* export_env_vars, lines 136-149: no lock is taken
export_env_vars(p, t) ==
    /\ Reader(p, t,
              [op |-> "export_env_vars", service_name |-> "", purpose |-> ""],
              [kind |-> "dict", val |-> 0])
    /\ env_vars' =
          ExportLoop(SetItem(SetItem(NoEnv, BASE_PORT,
                                     ToString(base_port[p])),
                             NEXT_PORT, ToString(current_port[p])),
                     assigned_ports[p], ItemsOrder(assigned_ports[p]))

\* registries one process can hold after some assign_port and release_port
\* calls: distinct ports from base_port on, given out in ascending order, and
\* the cursor above all of them
ExpRegistries(b) ==
    {[next |-> n, ports |-> m] :
        n \in b .. (b + Cardinality(ExpServices)),
        m \in UNION {[D -> b .. (b + Cardinality(ExpServices) - 1)] :
                        D \in SUBSET ExpServices}}

ExpOnly == UNCHANGED <<orchVars, findVars, concVars, detVars, chkVars>>

ExpInit ==
    /\ OrchIdle /\ FindIdle /\ ConcIdle /\ DetIdle /\ ChkIdle
    /\ \E b \in BasePorts : \E r \in ExpRegistries(b) :
          /\ \A x, y \in DOMAIN r.ports :
                x # y => r.ports[x] # r.ports[y]
          /\ \A x \in DOMAIN r.ports : r.ports[x] < r.next
          /\ base_port = [p \in Procs |-> IF p = 1 THEN b ELSE DefaultBasePort]
          /\ current_port =
                [p \in Procs |-> IF p = 1 THEN r.next ELSE DefaultBasePort]
          /\ assigned_ports =
                [p \in Procs |->
                    IF p = 1
                    THEN [x \in DOMAIN r.ports |->
                             [port |-> r.ports[x], purpose |-> "",
                              assigned_at |-> r.ports[x] - b + 1]]
                    ELSE NoAssignments]
    /\ alive = [p \in Procs |-> p = 1]
    /\ port_file = MissingFile
    /\ lock = [p \in Procs |-> 0]
    /\ tpc = [p \in Procs |-> [t \in Threads |-> "idle"]]
    /\ call = [p \in Procs |-> [t \in Threads |-> NoCall]]
    /\ assigned_port = [p \in Procs |-> [t \in Threads |-> 0]]
    /\ ret = [p \in Procs |-> [t \in Threads |-> NoRet]]
    /\ env_vars = NoEnv
    /\ clock = 0
    /\ loaded = [p \in Procs |-> [file |-> MissingFile, cursor |-> 0]]
    /\ issued = [p \in Procs |-> {}]
    /\ lin = [p \in Procs |-> [next |-> 0, ports |-> <<>>]]
    /\ linRet = [p \in Procs |-> [t \in Threads |-> NoRet]]
    /\ saved = [p \in Procs |-> MissingFile]

ExpNext ==
    \/ export_env_vars(1, 1) /\ UNCHANGED regHist /\ ExpOnly
    \/ call_done(1, 1) /\ RegOnly

ExpSpec == ExpInit /\ [][ExpNext]_vars

\* export_env_vars has returned its dict
Exported ==
    /\ tpc[1][1] = "done" /\ call[1][1].op = "export_env_vars"

\* C36: export_env_vars returns BASE_PORT = base_port, NEXT_PORT = next_port
\* and one variable <SERVICE>_PORT per assigned service whose value is that
\* service's port: each service has its own variable.
C36_OneVariablePerService ==
    Exported =>
        LET m == assigned_ports[1]
        IN  /\ env_vars[BASE_PORT] = ToString(base_port[1])
            /\ env_vars[NEXT_PORT] = ToString(current_port[1])
            /\ \A s \in DOMAIN m :
                  /\ EnvVarName(s) \in DOMAIN env_vars
                  /\ env_vars[EnvVarName(s)] = ToString(m[s].port)
            /\ \A s1, s2 \in DOMAIN m :
                  s1 # s2 => EnvVarName(s1) # EnvVarName(s2)

\* C36, what holds: the fixed keys carry the base and the cursor and every
\* service has a correct variable of its own whenever no two names of the
\* registry, the fixed keys included, collapse to the same variable name
C36_HoldsForDistinctNames ==
    Exported =>
        LET m == assigned_ports[1]
            names == {EnvVarName(s) : s \in DOMAIN m}
        IN  (/\ Cardinality(names) = Cardinality(DOMAIN m)
             /\ names \cap {BASE_PORT, NEXT_PORT} = {}) =>
                /\ env_vars[BASE_PORT] = ToString(base_port[1])
                /\ env_vars[NEXT_PORT] = ToString(current_port[1])
                /\ DOMAIN env_vars = names \cup {BASE_PORT, NEXT_PORT}
                /\ \A s \in DOMAIN m :
                      env_vars[EnvVarName(s)] = ToString(m[s].port)

\* two assigned services share one variable
C36_SharedVariable ==
    /\ Exported
    /\ {"web-api", "web_api"} \subseteq DOMAIN assigned_ports[1]
    /\ Cardinality(DOMAIN env_vars) = 3

\* the variable of a service replaced the registry's base
C36_BaseOverwritten ==
    /\ Exported
    /\ DOMAIN assigned_ports[1] = {"base"}
    /\ env_vars[BASE_PORT] # ToString(base_port[1])

\* the probes made so far in the current attempt
ProbesOfAttempt ==
    SubSeq(f_probed, Len(f_probed) - f_i + 1, Len(f_probed))

\* C37: in each attempt find_sequential_ports probes current, current+1, ...
\* in ascending order and stops at the first busy port, then advances current
\* by exactly 1; it tests at most max_attempts windows and always terminates,
\* with a result or an error.
C37_ScanStopsAtFirstBusy ==
    /\ [][/\ (f_pc = "probe" /\ f_probed' # f_probed) =>
                /\ f_probed' = Append(f_probed, f_current + f_i)
                /\ ProbesOfAttempt = [k \in 1 .. f_i |-> f_current + k - 1]
                /\ \A k \in 1 .. f_i : f_probed[Len(f_probed) - f_i + k]
                                          \notin f_busy
                /\ (f_current + f_i \in f_busy) =>
                      /\ f_pc' = "advance"
                      /\ Len(f_probed') - Len(f_probed) = 1
          /\ (f_pc = "advance") =>
                /\ f_probed' = f_probed
                /\ f_current' = f_current + 1
                /\ f_probed[Len(f_probed)] \in f_busy
          /\ f_attempt' \in {f_attempt, f_attempt + 1}
          /\ (f_attempt' = f_attempt + 1) =>
                (f_pc = "attempt" /\ f_current' = f_current
                  /\ f_current = f_base + f_attempt)
          /\ f_attempt' <= max_attempts
         ]_vars
    /\ <>(f_pc = "done" /\ f_result.kind \in {"list", "ValueError",
                                              "RuntimeError", "OverflowError"})

\* C37 witness: an attempt ended at a busy port with ports of its window left
\* unprobed
C37_Witness ==
    /\ f_pc = "advance" /\ f_count = 3 /\ f_i = 0
    /\ f_probed[Len(f_probed)] = f_current
    /\ f_current + 1 \notin f_busy

\* C37 witness: the search gave up after max_attempts windows
C37_WitnessBound ==
    /\ f_pc = "done" /\ f_result.kind = "RuntimeError"
    /\ f_attempt = max_attempts /\ f_current = f_base + max_attempts

\* C38: cleanup() acts only on what the session started: a session that
\* started no container and no pod and invoked no compose up issues no stop,
\* remove, pod-remove or compose-down command during cleanup.
C38_CleanupOnlyOwn ==
    (~SessionCreated /\ ~sessUp) => cleanupCmds = {}

\* the session aborted on a port conflict before any creation; its cleanup took
\* down the healthy environment another session had started
C38_ForeignEnvironmentRemoved ==
    /\ ~SessionCreated /\ ~sessUp /\ startCmds = {}
    /\ allocErr # <<>> /\ preHealthy
    /\ <<"compose", "down", "-v">> \in cleanupCmds
    /\ envRunning = {}

\* podman: the session found the environment healthy and started nothing; its
\* cleanup asked the engine to remove the pod
C38_PodRemovalIssued ==
    /\ runtime = "podman" /\ ~SessionCreated
    /\ preHealthy /\ startRes = "True"
    /\ cleanupCmds = {<<"pod", "rm">>}

\* thread t makes a call that takes no lock
ReaderStep(t) ==
    /\ tpc[1][t] = "idle" /\ tpc'[1][t] = "done"
    /\ call'[1][t].op \in {"get_port", "get_next_port"}

\* C39: the readers that take no lock change no registry state and no file,
\* and at any moment, including while another thread is in the middle of
\* assign, the state they observe satisfies next_port > every assigned port.
C39_LockFreeReaders ==
    [][\A t \in Threads :
          ReaderStep(t) =>
              /\ UNCHANGED <<port_file, base_port, current_port,
                             assigned_ports, lock>>
              /\ \A s \in DOMAIN assigned_ports[1] :
                    current_port[1] > assigned_ports[1][s].port
      ]_vars

\* C39, what holds: a reader changes no registry state and no file
C39_ReadersChangeNothing ==
    [][\A t \in Threads :
          ReaderStep(t) =>
              UNCHANGED <<port_file, base_port, current_port, assigned_ports,
                          lock, saved>>
      ]_vars

\* get_next_port returned the port assign_port has just given to a service:
\* the other thread is between the assignment and the increment of the cursor
C39_CursorIsAssignedPort ==
    \E t, u \in Threads :
        /\ tpc[1][t] = "done" /\ call[1][t].op = "get_next_port"
        /\ tpc[1][u] = "assign_incr"
        /\ ret[1][t] = RetInt(assigned_port[1][u])
        /\ assigned_ports[1][call[1][u].service_name].port = ret[1][t].val

====
